---------------------------- MODULE Spec2Model ----------------------------
(***************************************************************************)
(* A model of wiff, a terminal diff viewer: the label registry, the diff   *)
(* model, the display-line builder, the input dispatcher with its pending  *)
(* label state machine, and the live-reload loop.                          *)
(*                                                                         *)
(* Text (labels, file paths, line contents) is a sequence of one-character *)
(* strings.  Indices stored in the state (Scroll, StartLine, HunkIdx, ...) *)
(* keep the 0-based values of the Go code; sequences are 1-based, so the   *)
(* element with Go index i is seq[i + 1].                                  *)
(***************************************************************************)
EXTENDS Integers, Sequences, FiniteSets, TLC

VARIABLES
    s,         \* the State struct (src/search.go) with these additions: the
               \* package variables labelTimer (s.LabelTimer: armed and not
               \* yet fired) and lastClickTime, lastClickY (s.LastClick: a
               \* click has been seen, s.LastClickY); s.Out, the log of
               \* the external calls and hunk commands made while handling
               \* the current event; s.Now, the clock in seconds
               \* (time.Now()); and s.StatusFlash, the flash message on the
               \* status line of the screen
    quit,      \* the event loop of main has returned
    timeouts,  \* EventLabelTimeout events posted and not yet handled
    ev,        \* the event handled last
    parsed,    \* parseDiff's loop: the labels of the hunks appended so far
    watch,     \* the watcher goroutine, the debounce loop and its timer
    recon      \* the old and the new version of the file on show, and the
               \* old version reconstructOldFile has returned

vars == <<s, quit, timeouts, ev, parsed, watch, recon>>

\* No file has been read.
NoFiles == [old |-> <<>>, new |-> <<>>, rebuilt |-> <<>>, done |-> FALSE]

\* The watcher before the first notification: the channel updates is empty,
\* the debounce loop waits on it, pending is nil and no EventReload is in
\* the event queue.  notes counts the notifications so far; opened counts
\* the notifications that found no timer armed, posts the EventReload
\* events posted, owed says that a notification is not yet followed by a
\* posted EventReload.
IdleWatch ==
    [updates |-> 0, taken |-> FALSE, armed |-> FALSE, reloads |-> 0,
     notes |-> 0, opened |-> 0, posts |-> 0, owed |-> FALSE]

-----------------------------------------------------------------------------
(* Generic helpers *)

Max2(a, b) == IF a > b THEN a ELSE b
Min2(a, b) == IF a < b THEN a ELSE b

\* Concatenation of F(lo) \o ... \o F(hi), split in halves to keep the
\* evaluation shallow.
RECURSIVE CatRange(_, _, _)
CatRange(F(_), lo, hi) ==
    IF lo > hi THEN <<>>
    ELSE IF lo = hi THEN F(lo)
    ELSE LET mid == (lo + hi) \div 2
         IN  CatRange(F, lo, mid) \o CatRange(F, mid + 1, hi)

\* The sum F(lo) + ... + F(hi).
RECURSIVE SumRange(_, _, _)
SumRange(F(_), lo, hi) ==
    IF lo > hi THEN 0
    ELSE IF lo = hi THEN F(lo)
    ELSE LET mid == (lo + hi) \div 2
         IN  SumRange(F, lo, mid) + SumRange(F, mid + 1, hi)

\* F applied to the value of x: x is computed once, then bound to the
\* parameter of F.
Then(x, F(_)) == CHOOSE r \in { F(v) : v \in {x} } : TRUE

SetMax(S) == CHOOSE x \in S : \A y \in S : y <= x
SetMin(S) == CHOOSE x \in S : \A y \in S : x <= y

\* strings.HasPrefix on texts.
HasPrefix(t, p) == Len(p) <= Len(t) /\ SubSeq(t, 1, Len(p)) = p

-----------------------------------------------------------------------------
(* Label registry: src/keys.go *)

Lower == << "a", "b", "c", "d", "e", "f", "g", "h", "i", "j", "k", "l", "m",
            "n", "o", "p", "q", "r", "s", "t", "u", "v", "w", "x", "y", "z" >>
Upper == << "A", "B", "C", "D", "E", "F", "G", "H", "I", "J", "K", "L", "M",
            "N", "O", "P", "Q", "R", "S", "T", "U", "V", "W", "X", "Y", "Z" >>

\* The Key column of the keyBindings table.
keyBindings ==
    << "j", "k", "d", "u", "g", "G",
       "s", "n", "w", "e", "h", "b",
       "f",
       "y", "Y", "p", "c",
       "A",
       "F",
       "/", "N",
       "]", "[",
       "a",
       "?",
       "o",
       "W",
       "q", "+", "=", "-" >>

reservedKeys == { keyBindings[i] : i \in DOMAIN keyBindings }

\* init(): a-z then A-Z, minus the reserved keys, in that order.
availableLabelsOf(reserved) ==
    SelectSeq(Lower, LAMBDA r : r \notin reserved)
        \o SelectSeq(Upper, LAMBDA r : r \notin reserved)

availableLabels == availableLabelsOf(reservedKeys)

\* A plausible slip in indexToLabel: the two characters of a two-character
\* label swapped.
indexToLabelSwapped(idx) ==
    LET n == Len(availableLabels)
    IN  IF idx < n THEN << availableLabels[idx + 1] >>
        ELSE LET over   == idx - n
                 first0 == over \div n
                 second == over % n
                 first  == IF first0 >= n THEN n - 1 ELSE first0
             IN  << availableLabels[second + 1], availableLabels[first + 1] >>

indexToLabel(idx) ==
    LET n == Len(availableLabels)
    IN  IF idx < n THEN << availableLabels[idx + 1] >>
        ELSE LET over   == idx - n
                 first0 == over \div n
                 second == over % n
                 first  == IF first0 >= n THEN n - 1 ELSE first0
             IN  << availableLabels[first + 1], availableLabels[second + 1] >>

-----------------------------------------------------------------------------
(* Generic loops *)

\* A Go for-loop "for i := lo; i <= hi; i++ { acc = Step(i, acc) }", split
\* in halves to keep the evaluation shallow.
RECURSIVE ForRange(_, _, _, _)
ForRange(Step(_, _), lo, hi, acc) ==
    IF lo > hi THEN acc
    ELSE IF lo = hi THEN Step(lo, acc)
    ELSE LET mid == (lo + hi) \div 2
         IN  Then(ForRange(Step, lo, mid, acc),
                  LAMBDA half : ForRange(Step, mid + 1, hi, half))

\* strings.Join(ts, sep) for a one-character separator.
Join(ts, sep) ==
    CatRange(LAMBDA i : IF i = 1 THEN ts[1] ELSE <<sep>> \o ts[i], 1, Len(ts))

-----------------------------------------------------------------------------
(* Diff model: src/diff.go *)

EmptyText == <<>>

\* A Line of a hunk.
Line(op, content) == [Op |-> op, Content |-> content]

\* A text fragment of the parsed diff, as the gitdiff library hands it to
\* parseDiff (the file name already resolved to the new name, or the old one).
Frag(file, comment, oldStart, newStart, lines) ==
    [File |-> file, Comment |-> comment, OldPosition |-> oldStart,
     NewPosition |-> newStart, Lines |-> lines]

\* formatHeader: the arguments of "@@ -%d,%d +%d,%d @@%s".
formatHeader(frag) ==
    [OldPosition |-> frag.OldPosition,
     OldLines    |-> Cardinality({i \in DOMAIN frag.Lines : frag.Lines[i].Op # "+"}),
     NewPosition |-> frag.NewPosition,
     NewLines    |-> Cardinality({i \in DOMAIN frag.Lines : frag.Lines[i].Op # "-"}),
     Comment     |-> IF frag.Comment # EmptyText THEN <<" ">> \o frag.Comment
                     ELSE EmptyText]

\* parseDiff: one Hunk per fragment, labelled by its position in the list.
\* StartLine and Staged start at Go's zero values.
parseDiff(frags) ==
    [i \in 1..Len(frags) |->
        [Label     |-> indexToLabel(i - 1),
         File      |-> frags[i].File,
         Header    |-> formatHeader(frags[i]),
         Comment   |-> frags[i].Comment,
         OldStart  |-> frags[i].OldPosition,
         NewStart  |-> frags[i].NewPosition,
         Lines     |-> frags[i].Lines,
         StartLine |-> 0,
         Staged    |-> FALSE]]

\* Hunk.filterLines: the contents of the lines with this op, joined by "\n".
filterLines(h, op) ==
    LET picked == SelectSeq(h.Lines, LAMBDA l : l.Op = op)
    IN  Join([i \in 1..Len(picked) |-> picked[i].Content], "\n")

AddedLines(h) == filterLines(h, "+")

RemovedLines(h) == filterLines(h, "-")

\* Hunk.ResultLines: the contents of the context and added lines, joined
\* by "\n".
ResultLines(h) ==
    LET picked == SelectSeq(h.Lines, LAMBDA l : l.Op # "-")
    IN  Join([i \in 1..Len(picked) |-> picked[i].Content], "\n")

\* A plausible slip in AsPatch: the lines joined by "\n", with no newline
\* after the last one.
AsPatchJoined(h) ==
    <<h.Header, "\n">>
        \o Join([i \in 1..Len(h.Lines) |-> <<h.Lines[i].Op>> \o h.Lines[i].Content], "\n")

\* Hunk.AsPatch: the header line, then op + content + "\n" per line.  The
\* first element of the text is the header, kept as the record of its format
\* arguments.
AsPatch(h) ==
    <<h.Header, "\n">>
        \o CatRange(LAMBDA i : <<h.Lines[i].Op>> \o h.Lines[i].Content \o <<"\n">>,
                    1, Len(h.Lines))

\* Hunk.AsFullPatch: the diff --git / --- / +++ lines for the file, then
\* AsPatch.
AsFullPatch(h) == [File |-> h.File, Patch |-> AsPatch(h)]

\* hunkFingerprint (main.go): "<file>:<old_start>:<new_start>".
hunkFingerprint(h) == <<h.File, h.OldStart, h.NewStart>>

-----------------------------------------------------------------------------
(* Display lines: src/search.go (State, DisplayLine, layout, wrapping) *)

StyleNormal == "normal"
StyleFileHeader == "file-header"
StyleHunkHeader == "hunk-header"
StyleAdded == "added"
StyleRemoved == "removed"
StyleContext == "context"

treeWidth == 30
lineNoWidth == 5

\* Go's zero values of HalfLine and DisplayLine: a composite literal leaves
\* every field it does not name at its zero value (HunkIdx 0, not -1).
ZeroHalf == [Text |-> EmptyText, Style |-> StyleNormal, LineNo |-> 0]

ZeroLine ==
    [Text |-> EmptyText, Style |-> StyleNormal, Label |-> EmptyText,
     HunkIdx |-> 0, OldLineNo |-> 0, NewLineNo |-> 0, Continuation |-> FALSE,
     Left |-> ZeroHalf, Right |-> ZeroHalf]

HalfLine(text, style, lineNo) == [Text |-> text, Style |-> style, LineNo |-> lineNo]

\* updateLayout: DiffX and DiffWidth from the tree state.
updateLayout(st) ==
    LET w == IF st.TreeOpen THEN st.Width - treeWidth - 1 ELSE st.Width
    IN  [st EXCEPT !.DiffX = IF st.TreeOpen THEN treeWidth + 1 ELSE 0,
                   !.DiffWidth = IF w < 1 THEN 1 ELSE w]

\* maxLabelWidth: the length of the widest label, at least 1.
maxLabelWidth(st) ==
    SetMax({1} \cup { Len(st.Hunks[i].Label) : i \in DOMAIN st.Hunks })

computeLabelGutter(st) == [st EXCEPT !.LabelGutter = maxLabelWidth(st) + 3]

\* HunkByLabel: the position (1-based) of the first hunk with this label,
\* 0 for nil.
HunkByLabel(st, label) ==
    LET S == { i \in DOMAIN st.Hunks : st.Hunks[i].Label = label }
    IN  IF S = {} THEN 0 ELSE SetMin(S)

\* A plausible slip in hasLabelPrefix: label and prefix the wrong way round,
\* so that it looks for a shorter label that starts the prefix.
hasLabelPrefixShorter(st, prefix) ==
    \E i \in DOMAIN st.Hunks :
        /\ Len(st.Hunks[i].Label) < Len(prefix)
        /\ SubSeq(prefix, 1, Len(st.Hunks[i].Label)) = st.Hunks[i].Label

\* hasLabelPrefix: some label is longer than prefix and starts with it.
hasLabelPrefix(st, prefix) ==
    \E i \in DOMAIN st.Hunks :
        /\ Len(st.Hunks[i].Label) > Len(prefix)
        /\ SubSeq(st.Hunks[i].Label, 1, Len(prefix)) = prefix

\* A plausible slip in textWidth: the line-number column is not taken off.
textWidthNoNumbers(st) ==
    LET w == st.DiffWidth - st.LabelGutter
    IN  IF w < 1 THEN 1 ELSE w

\* textWidth: the width of the text column in inline mode, at least 1.
textWidth(st) ==
    LET w == st.DiffWidth - st.LabelGutter
                - (IF st.LineNumbers THEN lineNoWidth ELSE 0)
    IN  IF w < 1 THEN 1 ELSE w

\* sideBySideColWidth: the width of each half's text in side-by-side mode.
sideBySideColWidth(st) ==
    LET colWidth == (st.DiffWidth - st.LabelGutter - 1) \div 2
        tw == colWidth - (IF st.LineNumbers THEN lineNoWidth ELSE 0)
    IN  IF tw < 1 THEN 1 ELSE tw

IsContentStyle(style) ==
    style \notin {StyleNormal, StyleFileHeader, StyleHunkHeader}

\* The k-th chunk (1-based) of tw characters of a text, empty past its end.
Chunk(text, tw, k) == SubSeq(text, (k - 1) * tw + 1, Min2(k * tw, Len(text)))

NumChunks(text, tw) == (Len(text) + tw - 1) \div tw

\* The loop at the end of both wrap passes: every hunk-header row with a
\* label sets the StartLine of the hunk HunkByLabel finds for it.
fixStartLines(st) ==
    ForRange(LAMBDA i, acc :
                 LET line == acc.Lines[i]
                     h == HunkByLabel(acc, line.Label)
                 IN  IF line.Style = StyleHunkHeader /\ line.Label # EmptyText /\ h # 0
                     THEN [acc EXCEPT !.Hunks[h].StartLine = i - 1]
                     ELSE acc,
             1, Len(st.Lines), st)

\* The rows wrapLines makes of one display line.
wrapLine(line, tw) ==
    IF ~IsContentStyle(line.Style) \/ Len(line.Text) <= tw THEN <<line>>
    ELSE << [ZeroLine EXCEPT !.Text = Chunk(line.Text, tw, 1),
                              !.Style = line.Style,
                              !.HunkIdx = line.HunkIdx,
                              !.OldLineNo = line.OldLineNo,
                              !.NewLineNo = line.NewLineNo] >>
         \o [k \in 1..(NumChunks(line.Text, tw) - 1) |->
                [ZeroLine EXCEPT !.Text = Chunk(line.Text, tw, k + 1),
                                 !.Style = line.Style,
                                 !.HunkIdx = line.HunkIdx,
                                 !.Continuation = TRUE]]

\* wrapLines: split long inline rows, then fix the StartLine values.
wrapLines(st) ==
    LET tw == textWidth(st)
        wrapped == CatRange(LAMBDA i : wrapLine(st.Lines[i], tw), 1, Len(st.Lines))
    IN  fixStartLines([st EXCEPT !.Lines = wrapped])

\* The rows wrapSideBySideLines makes of one display line.
wrapSideBySideLine(line, tw) ==
    IF ~IsContentStyle(line.Style)
          \/ (Len(line.Left.Text) <= tw /\ Len(line.Right.Text) <= tw)
    THEN <<line>>
    ELSE LET n == Max2(NumChunks(line.Left.Text, tw), NumChunks(line.Right.Text, tw))
         IN  << [ZeroLine EXCEPT
                    !.Style = line.Style,
                    !.Label = line.Label,
                    !.HunkIdx = line.HunkIdx,
                    !.Left = HalfLine(Chunk(line.Left.Text, tw, 1),
                                      line.Left.Style, line.Left.LineNo),
                    !.Right = HalfLine(Chunk(line.Right.Text, tw, 1),
                                       line.Right.Style, line.Right.LineNo)] >>
             \o [k \in 1..(n - 1) |->
                    [ZeroLine EXCEPT
                        !.Style = line.Style,
                        !.HunkIdx = line.HunkIdx,
                        !.Continuation = TRUE,
                        !.Left = HalfLine(Chunk(line.Left.Text, tw, k + 1),
                                          line.Left.Style, 0),
                        !.Right = HalfLine(Chunk(line.Right.Text, tw, k + 1),
                                           line.Right.Style, 0)]]

\* wrapSideBySideLines: split long half-lines, then fix the StartLine values.
wrapSideBySideLines(st) ==
    LET tw == sideBySideColWidth(st)
        wrapped == CatRange(LAMBDA i : wrapSideBySideLine(st.Lines[i], tw),
                            1, Len(st.Lines))
    IN  fixStartLines([st EXCEPT !.Lines = wrapped])

-----------------------------------------------------------------------------
(* Display-line builders: src/search.go (state.go part) *)

BlankLine == [ZeroLine EXCEPT !.Style = StyleNormal]

FileHeaderLine(file) == [ZeroLine EXCEPT !.Text = file, !.Style = StyleFileHeader]

\* The hunk-header row of the hunk with Go index idx.
HunkHeaderLine(h, idx) ==
    [ZeroLine EXCEPT !.Text = h.Comment, !.Style = StyleHunkHeader,
                     !.Label = h.Label, !.HunkIdx = idx]

\* A plausible slip in the loop over the lines of a hunk in
\* buildInlineLines: every row gets both line numbers.
inlineLineStepBoth(dl, idx, acc) ==
    [rows  |-> Append(acc.rows,
                  [ZeroLine EXCEPT !.Text = <<dl.Op>> \o dl.Content,
                                   !.Style = IF dl.Op = "+" THEN StyleAdded
                                             ELSE IF dl.Op = "-" THEN StyleRemoved
                                             ELSE StyleContext,
                                   !.HunkIdx = idx,
                                   !.OldLineNo = acc.oldNo,
                                   !.NewLineNo = acc.newNo]),
     oldNo |-> IF dl.Op = "+" THEN acc.oldNo ELSE acc.oldNo + 1,
     newNo |-> IF dl.Op = "-" THEN acc.newNo ELSE acc.newNo + 1]

\* The body of the loop over the lines of a hunk in buildInlineLines:
\* acc is [rows, oldNo, newNo].
inlineLineStep(dl, idx, acc) ==
    IF dl.Op = "+" THEN
        [rows  |-> Append(acc.rows,
                      [ZeroLine EXCEPT !.Text = <<dl.Op>> \o dl.Content,
                                       !.Style = StyleAdded, !.HunkIdx = idx,
                                       !.NewLineNo = acc.newNo]),
         oldNo |-> acc.oldNo, newNo |-> acc.newNo + 1]
    ELSE IF dl.Op = "-" THEN
        [rows  |-> Append(acc.rows,
                      [ZeroLine EXCEPT !.Text = <<dl.Op>> \o dl.Content,
                                       !.Style = StyleRemoved, !.HunkIdx = idx,
                                       !.OldLineNo = acc.oldNo]),
         oldNo |-> acc.oldNo + 1, newNo |-> acc.newNo]
    ELSE
        [rows  |-> Append(acc.rows,
                      [ZeroLine EXCEPT !.Text = <<dl.Op>> \o dl.Content,
                                       !.Style = StyleContext, !.HunkIdx = idx,
                                       !.OldLineNo = acc.oldNo,
                                       !.NewLineNo = acc.newNo]),
         oldNo |-> acc.oldNo + 1, newNo |-> acc.newNo + 1]

\* The inline rows of the lines of hunk h (Go index idx), with the line
\* numbers after them.
inlineHunkRows(h, idx) ==
    ForRange(LAMBDA k, acc : inlineLineStep(h.Lines[k], idx, acc),
             1, Len(h.Lines),
             [rows |-> <<>>, oldNo |-> h.OldStart, newNo |-> h.NewStart])

\* The part of the loop body that buildInlineLines and buildSideBySideLines
\* share: skip a filtered hunk, else file header, blank row, StartLine and
\* hunk header, then the hunk's rows.  acc is [st, lines, currentFile].
hunkStep(i, acc, rows) ==
    LET h == acc.st.Hunks[i]
    IN  IF acc.st.FilterFile # EmptyText /\ h.File # acc.st.FilterFile
        THEN [acc EXCEPT !.st.Hunks[i].StartLine = -1]
        ELSE LET header == IF h.File # acc.currentFile
                           THEN (IF acc.currentFile # EmptyText
                                 THEN <<BlankLine>> ELSE <<>>)
                                \o <<FileHeaderLine(h.File)>>
                           ELSE <<>>
                 before == acc.lines \o header \o <<BlankLine>>
             IN  [st          |-> [acc.st EXCEPT !.Hunks[i].StartLine = Len(before)],
                  lines       |-> before \o <<HunkHeaderLine(h, i - 1)>> \o rows,
                  currentFile |-> h.File]

buildInlineLines(st) ==
    Then(ForRange(LAMBDA i, acc :
                      hunkStep(i, acc, inlineHunkRows(acc.st.Hunks[i], i - 1).rows),
                  1, Len(st.Hunks),
                  [st |-> st, lines |-> <<>>, currentFile |-> EmptyText]),
         LAMBDA done : [done.st EXCEPT !.Lines = done.lines])

\* The number of consecutive lines with this op from position j on.
runLength(lines, j, op) ==
    SetMin({ k \in j..(Len(lines) + 1) : k > Len(lines) \/ lines[k].Op # op }) - j

\* A plausible slip in the pairing loop of buildSideBySideLines: the removed
\* lines and the added lines after them each get a row of their own.
pairedRowsApart(h, idx, j, nRem, nAdd, oldNo, newNo) ==
    [k \in 1..(nRem + nAdd) |->
        IF k <= nRem
        THEN [ZeroLine EXCEPT !.Style = StyleRemoved, !.HunkIdx = idx,
                              !.Left = HalfLine(<<"-">> \o h.Lines[j + k - 1].Content,
                                                StyleRemoved, oldNo + k - 1)]
        ELSE [ZeroLine EXCEPT !.Style = StyleAdded, !.HunkIdx = idx,
                              !.Right = HalfLine(<<"+">> \o h.Lines[j + k - 1].Content,
                                                 StyleAdded, newNo + k - nRem - 1)]]

\* The rows pairing nRem removed lines from position j with the nAdd added
\* lines after them.
pairedRows(h, idx, j, nRem, nAdd, oldNo, newNo) ==
    [k \in 1..Max2(nRem, nAdd) |->
        LET left  == IF k <= nRem
                     THEN HalfLine(<<"-">> \o h.Lines[j + k - 1].Content,
                                   StyleRemoved, oldNo + k - 1)
                     ELSE ZeroHalf
            right == IF k <= nAdd
                     THEN HalfLine(<<"+">> \o h.Lines[j + nRem + k - 1].Content,
                                   StyleAdded, newNo + k - 1)
                     ELSE ZeroHalf
            lineStyle == IF left.Text # EmptyText THEN StyleRemoved
                         ELSE IF right.Text # EmptyText THEN StyleAdded
                         ELSE StyleContext
        IN  [ZeroLine EXCEPT !.Style = lineStyle, !.HunkIdx = idx,
                             !.Left = left, !.Right = right]]

\* The loop "for j < len(h.Lines)" of the side-by-side builders, from
\* position j on: acc is [rows, oldNo, newNo].
RECURSIVE sideBySideWalk(_, _, _, _)
sideBySideWalk(h, idx, j, acc) ==
    IF j > Len(h.Lines) THEN acc
    ELSE IF h.Lines[j].Op = " "
    THEN sideBySideWalk(h, idx, j + 1,
            [rows  |-> Append(acc.rows,
                        [ZeroLine EXCEPT
                            !.Style = StyleContext, !.HunkIdx = idx,
                            !.Left = HalfLine(<<" ">> \o h.Lines[j].Content,
                                              StyleContext, acc.oldNo),
                            !.Right = HalfLine(<<" ">> \o h.Lines[j].Content,
                                               StyleContext, acc.newNo)]),
             oldNo |-> acc.oldNo + 1, newNo |-> acc.newNo + 1])
    ELSE LET nRem == runLength(h.Lines, j, "-")
             nAdd == runLength(h.Lines, j + nRem, "+")
         IN  sideBySideWalk(h, idx, j + nRem + nAdd,
                [rows  |-> acc.rows \o pairedRows(h, idx, j, nRem, nAdd,
                                                  acc.oldNo, acc.newNo),
                 oldNo |-> acc.oldNo + nRem, newNo |-> acc.newNo + nAdd])

sideBySideHunkRows(h, idx) ==
    sideBySideWalk(h, idx, 1,
        [rows |-> <<>>, oldNo |-> h.OldStart, newNo |-> h.NewStart])

buildSideBySideLines(st) ==
    Then(ForRange(LAMBDA i, acc :
                      hunkStep(i, acc, sideBySideHunkRows(acc.st.Hunks[i], i - 1).rows),
                  1, Len(st.Hunks),
                  [st |-> st, lines |-> <<>>, currentFile |-> EmptyText]),
         LAMBDA done : [done.st EXCEPT !.Lines = done.lines])

-----------------------------------------------------------------------------
(* Full-file builders: src/search.go (state.go part).  The environment of *)
(* one event, env, says what the file system and git answer:              *)
(*   env.root  gitRoot() succeeds                                         *)
(*   env.disk  what os.ReadFile gives: the lines, or a failure            *)
(*   env.show  what "git show <rev>:<file>" gives: the lines, or nothing   *)

\* The answer to a read: the lines of the file, or a failure.
Read(lines) == [ok |-> TRUE, lines |-> lines]

Nil == [ok |-> FALSE, lines |-> <<>>]

\* An external call made while handling the event, appended to st.Out.
Call(st, call) == [st EXCEPT !.Out = Append(@, call)]

GitCall(args) == [op |-> "git", args |-> args]

\* The Go indices of the hunks of a file, in order.
fileHunkIdxs(st, filename) ==
    SelectSeq([i \in 1..Len(st.Hunks) |-> i - 1],
              LAMBDA idx : st.Hunks[idx + 1].File = filename)

\* A context row of the unchanged part of the file in full-file inline mode.
fullFileContextLine(fileLines, n, oldNo, ctxIdx) ==
    [ZeroLine EXCEPT !.Text = <<" ">> \o fileLines[n], !.Style = StyleContext,
                     !.HunkIdx = ctxIdx, !.OldLineNo = oldNo, !.NewLineNo = n]

\* The body of the loop over fileHunks in buildFullFileLines: acc is
\* [st, lines, newLineNo, oldLineNo].
fullFileHunkStep(idx, fileLines, ctxIdx, acc) ==
    LET h == acc.st.Hunks[idx + 1]
        last == Min2(h.NewStart - 1, Len(fileLines))
        gap == [k \in 1..Max2(0, last - acc.newLineNo + 1) |->
                   fullFileContextLine(fileLines, acc.newLineNo + k - 1,
                                       acc.oldLineNo + k - 1, ctxIdx)]
        before == acc.lines \o gap \o <<BlankLine>>
    IN  Then(inlineHunkRows(h, idx), LAMBDA body :
          [st        |-> [acc.st EXCEPT !.Hunks[idx + 1].StartLine = Len(before)],
           lines     |-> before \o <<HunkHeaderLine(h, idx)>> \o body.rows \o <<BlankLine>>,
           newLineNo |-> body.newNo,
           oldLineNo |-> body.oldNo])

\* buildFullFileLines with the file lines read.
fullFileLinesOf(st, fileLines) ==
    LET idxs == fileHunkIdxs(st, st.FullFileName)
        ctxIdx == IF Len(idxs) = 0 THEN -1 ELSE idxs[1]
    IN  Then(ForRange(LAMBDA k, acc : fullFileHunkStep(idxs[k], fileLines, ctxIdx, acc),
                      1, Len(idxs),
                      [st |-> st, lines |-> <<FileHeaderLine(st.FullFileName)>>,
                       newLineNo |-> 1, oldLineNo |-> 1]),
             LAMBDA done :
               [done.st EXCEPT !.Lines =
                   done.lines
                   \o [k \in 1..Max2(0, Len(fileLines) - done.newLineNo + 1) |->
                          fullFileContextLine(fileLines, done.newLineNo + k - 1,
                                              done.oldLineNo + k - 1, ctxIdx)]])

\* buildFullFileLines: the new file from the working tree, else from
\* "git show HEAD:<file>"; the display lines stay as they are when neither
\* can be read.
buildFullFileLines(st, env) ==
    LET st1 == Call(st, GitCall(<<"rev-parse", "--show-toplevel">>))
    IN  IF ~env.root THEN st1
        ELSE LET st2 == Call(st1, [op |-> "readfile", file |-> st.FullFileName])
             IN  IF env.disk.ok THEN fullFileLinesOf(st2, env.disk.lines)
                 ELSE LET st3 == Call(st2, GitCall(<<"show", "HEAD:", st.FullFileName>>))
                      IN  IF ~env.show.ok THEN st3
                          ELSE fullFileLinesOf(st3, env.show.lines)

\* The body of the loop over the lines of a hunk in reconstructOldFile:
\* acc is [old, newPos].
reconstructLineStep(dl, acc) ==
    IF dl.Op = " " THEN [old |-> Append(acc.old, dl.Content), newPos |-> acc.newPos + 1]
    ELSE IF dl.Op = "-" THEN [old |-> Append(acc.old, dl.Content), newPos |-> acc.newPos]
    ELSE [old |-> acc.old, newPos |-> acc.newPos + 1]

\* The body of the loop over fileHunks in reconstructOldFile.
reconstructHunkStep(h, newLines, acc) ==
    LET last == Min2(h.NewStart - 1, Len(newLines))
        n == Max2(0, last - acc.newPos + 1)
        copied == [old |-> acc.old \o SubSeq(newLines, acc.newPos, acc.newPos + n - 1),
                   newPos |-> acc.newPos + n]
    IN  ForRange(LAMBDA k, a : reconstructLineStep(h.Lines[k], a),
                 1, Len(h.Lines), copied)

\* reconstructOldFile: the old file from the new file and the hunks.
reconstructOldFile(st, filename, newLines) ==
    LET idxs == fileHunkIdxs(st, filename)
    IN  IF Len(idxs) = 0 THEN newLines
        ELSE LET done == ForRange(LAMBDA k, acc :
                                      reconstructHunkStep(st.Hunks[idxs[k] + 1], newLines, acc),
                                  1, Len(idxs), [old |-> <<>>, newPos |-> 1])
             IN  done.old \o SubSeq(newLines, done.newPos, Len(newLines))

\* readNewFile: the new version of a file, Nil when it cannot be read.
\* Returns [st, read].
readNewFile(st, filename, env) ==
    IF st.Staged
    THEN [st |-> Call(st, GitCall(<<"show", ":", filename>>)), read |-> env.show]
    ELSE IF Len(st.Refs) >= 2
    THEN [st |-> Call(st, GitCall(<<"show", st.Refs[2], ":", filename>>)),
          read |-> env.show]
    ELSE LET st1 == Call(st, GitCall(<<"rev-parse", "--show-toplevel">>))
         IN  IF ~env.root THEN [st |-> st1, read |-> Nil]
             ELSE [st |-> Call(st1, [op |-> "readfile", file |-> filename]),
                   read |-> env.disk]

\* A row pairing line oldNo of the old file with line newNo of the new one,
\* each half empty past the end of its file.
fullFilePairLine(oldLines, newLines, oldNo, newNo, ctxIdx) ==
    [ZeroLine EXCEPT
        !.Style = StyleContext, !.HunkIdx = ctxIdx,
        !.Left = IF oldNo - 1 < Len(oldLines)
                 THEN HalfLine(<<" ">> \o oldLines[oldNo], StyleContext, oldNo)
                 ELSE ZeroHalf,
        !.Right = IF newNo - 1 < Len(newLines)
                  THEN HalfLine(<<" ">> \o newLines[newNo], StyleContext, newNo)
                  ELSE ZeroHalf]

\* The body of the loop over fileHunks in buildFullFileSideBySideLines.
fullFileSideBySideHunkStep(idx, oldLines, newLines, ctxIdx, acc) ==
    LET h == acc.st.Hunks[idx + 1]
        gap == [k \in 1..Max2(0, h.NewStart - acc.newLineNo) |->
                   fullFilePairLine(oldLines, newLines, acc.oldLineNo + k - 1,
                                    acc.newLineNo + k - 1, ctxIdx)]
        before == acc.lines \o gap \o <<BlankLine>>
    IN  Then(sideBySideHunkRows(h, idx), LAMBDA body :
          [st        |-> [acc.st EXCEPT !.Hunks[idx + 1].StartLine = Len(before)],
           lines     |-> before \o <<HunkHeaderLine(h, idx)>> \o body.rows \o <<BlankLine>>,
           newLineNo |-> body.newNo,
           oldLineNo |-> body.oldNo])

\* buildFullFileSideBySideLines with the old and the new file at hand.
fullFileSideBySideLinesWith(st, oldLines, newLines) ==
    LET idxs == fileHunkIdxs(st, st.FullFileName)
        ctxIdx == IF Len(idxs) = 0 THEN -1 ELSE idxs[1]
    IN  Then(ForRange(LAMBDA k, acc :
                          fullFileSideBySideHunkStep(idxs[k], oldLines, newLines, ctxIdx, acc),
                      1, Len(idxs),
                      [st |-> st, lines |-> <<FileHeaderLine(st.FullFileName)>>,
                       newLineNo |-> 1, oldLineNo |-> 1]),
             LAMBDA done :
               [done.st EXCEPT !.Lines =
                   done.lines
                   \o [k \in 1..Max2(0, Max2(Len(oldLines) - done.oldLineNo + 1,
                                              Len(newLines) - done.newLineNo + 1)) |->
                          fullFilePairLine(oldLines, newLines, done.oldLineNo + k - 1,
                                           done.newLineNo + k - 1, ctxIdx)]])

\* buildFullFileSideBySideLines with the new file read.
fullFileSideBySideLinesOf(st, newLines) ==
    Then(reconstructOldFile(st, st.FullFileName, newLines),
         LAMBDA oldLines : fullFileSideBySideLinesWith(st, oldLines, newLines))

buildFullFileSideBySideLines(st, env) ==
    Then(readNewFile(st, st.FullFileName, env),
         LAMBDA r : IF ~r.read.ok THEN r.st
                    ELSE fullFileSideBySideLinesOf(r.st, r.read.lines))

-----------------------------------------------------------------------------
(* Search: src/search.go *)

\* strings.ToLower on a text.
ToLower(text) ==
    [i \in 1..Len(text) |->
        IF \E k \in DOMAIN Upper : Upper[k] = text[i]
        THEN Lower[CHOOSE k \in DOMAIN Upper : Upper[k] = text[i]]
        ELSE text[i]]

\* strings.Contains on texts.
Contains(text, sub) ==
    \E k \in 0..(Len(text) - Len(sub)) : SubSeq(text, k + 1, k + Len(sub)) = sub

lineMatches(line, query) ==
    \/ Contains(ToLower(line.Text), query)
    \/ line.Left.Text # EmptyText /\ Contains(ToLower(line.Left.Text), query)
    \/ line.Right.Text # EmptyText /\ Contains(ToLower(line.Right.Text), query)

\* UpdateMatches: the indices of the display lines that match the query.
UpdateMatches(st) ==
    IF st.SearchQuery = EmptyText
    THEN [st EXCEPT !.SearchMatches = <<>>, !.SearchIdx = -1]
    ELSE LET query == ToLower(st.SearchQuery)
         IN  [st EXCEPT
                !.SearchMatches = SelectSeq([i \in 1..Len(st.Lines) |-> i - 1],
                                            LAMBDA i : lineMatches(st.Lines[i + 1], query)),
                !.SearchIdx = -1]

-----------------------------------------------------------------------------
(* BuildLines and scrolling: src/search.go (state.go part) *)

\* BuildLines: layout, reset of every StartLine, the builder of the current
\* mode, its wrap pass, and the refresh of the search matches.
BuildLines(st, env) ==
    Then([computeLabelGutter(updateLayout(st)) EXCEPT
             !.Hunks = [i \in DOMAIN @ |-> [@[i] EXCEPT !.StartLine = -1]]],
         LAMBDA st2 :
           Then(IF st2.FullFile /\ st2.FullFileName # EmptyText
                THEN IF st2.SideBySide
                     THEN Then(buildFullFileSideBySideLines(st2, env),
                               LAMBDA b : IF st2.Wrap THEN wrapSideBySideLines(b) ELSE b)
                     ELSE Then(buildFullFileLines(st2, env),
                               LAMBDA b : IF st2.Wrap THEN wrapLines(b) ELSE b)
                ELSE IF st2.SideBySide
                     THEN Then(buildSideBySideLines(st2),
                               LAMBDA b : IF st2.Wrap THEN wrapSideBySideLines(b) ELSE b)
                     ELSE Then(buildInlineLines(st2),
                               LAMBDA b : IF st2.Wrap THEN wrapLines(b) ELSE b),
                LAMBDA st3 : IF st3.SearchQuery # EmptyText THEN UpdateMatches(st3)
                             ELSE st3))

\* MaxScroll: the greatest valid scroll position.
MaxScroll(st) ==
    LET visible == st.Height - 1
    IN  IF Len(st.Lines) <= visible THEN 0 ELSE Len(st.Lines) - visible

\* A plausible slip in ClampScroll: the upper bound is not applied.
ClampScrollLowOnly(st) ==
    IF st.Scroll < 0 THEN [st EXCEPT !.Scroll = 0] ELSE st

ClampScroll(st) ==
    LET st1 == IF st.Scroll < 0 THEN [st EXCEPT !.Scroll = 0] ELSE st
    IN  IF st1.Scroll > MaxScroll(st1) THEN [st1 EXCEPT !.Scroll = MaxScroll(st1)]
        ELSE st1

ScrollBy(st, delta) == ClampScroll([st EXCEPT !.Scroll = @ + delta])

ScrollTo(st, pos) == ClampScroll([st EXCEPT !.Scroll = pos])

\* CurrentHunkIndex: the Go index of the hunk at the scroll position.
CurrentHunkIndex(st) ==
    LET at == { i \in DOMAIN st.Hunks :
                  st.Hunks[i].StartLine >= 0 /\ st.Hunks[i].StartLine <= st.Scroll }
        shown == { i \in DOMAIN st.Hunks : st.Hunks[i].StartLine >= 0 }
    IN  IF at # {} THEN SetMax(at) - 1
        ELSE IF shown # {} THEN SetMin(shown) - 1
        ELSE 0

\* CurrentFile: the text of the nearest file header at or above the scroll
\* position, else the file of the current hunk, else "".
CurrentFile(st) ==
    LET above == { i \in 0..st.Scroll :
                     i < Len(st.Lines) /\ st.Lines[i + 1].Style = StyleFileHeader }
    IN  IF st.Scroll >= 0 /\ st.Scroll < Len(st.Lines) /\ above # {}
        THEN st.Lines[SetMax(above) + 1].Text
        ELSE IF Len(st.Hunks) > 0 THEN st.Hunks[CurrentHunkIndex(st) + 1].File
        ELSE EmptyText

\* CurrentLineNo: the first new-file line number in the five rows from the
\* scroll position, else the current hunk's NewStart, else 1.
CurrentLineNo(st) ==
    LET rows == { i \in st.Scroll..(st.Scroll + 4) :
                    /\ i >= 0 /\ i < Len(st.Lines)
                    /\ (st.Lines[i + 1].NewLineNo > 0 \/ st.Lines[i + 1].Right.LineNo > 0) }
        idx == CurrentHunkIndex(st)
    IN  IF rows # {}
        THEN LET line == st.Lines[SetMin(rows) + 1]
             IN  IF line.NewLineNo > 0 THEN line.NewLineNo ELSE line.Right.LineNo
        ELSE IF idx >= 0 /\ idx < Len(st.Hunks) THEN st.Hunks[idx + 1].NewStart
        ELSE 1

\* The first Go index in lo..hi whose hunk satisfies P, -1 when none.
FirstHunk(st, lo, hi, P(_)) ==
    LET S == { i \in lo..hi : i >= 0 /\ i < Len(st.Hunks) /\ P(st.Hunks[i + 1]) }
    IN  IF S = {} THEN -1 ELSE SetMin(S)

\* The last Go index in lo..hi whose hunk satisfies P, -1 when none.
LastHunk(st, lo, hi, P(_)) ==
    LET S == { i \in lo..hi : i >= 0 /\ i < Len(st.Hunks) /\ P(st.Hunks[i + 1]) }
    IN  IF S = {} THEN -1 ELSE SetMax(S)

\* JumpToNextHunk with the scroll position set past ClampScroll.
JumpToNextHunkUnclamped(st) ==
    LET i == FirstHunk(st, CurrentHunkIndex(st) + 1, Len(st.Hunks) - 1,
                       LAMBDA h : h.StartLine >= 0)
    IN  IF i >= 0 THEN [st EXCEPT !.Scroll = st.Hunks[i + 1].StartLine] ELSE st

JumpToNextHunk(st) ==
    LET i == FirstHunk(st, CurrentHunkIndex(st) + 1, Len(st.Hunks) - 1,
                       LAMBDA h : h.StartLine >= 0)
    IN  IF i >= 0 THEN ScrollTo(st, st.Hunks[i + 1].StartLine) ELSE st

JumpToPrevHunk(st) ==
    IF Len(st.Hunks) = 0 THEN st
    ELSE LET idx == CurrentHunkIndex(st)
             i == LastHunk(st, 0, idx - 1, LAMBDA h : h.StartLine >= 0)
         IN  IF i >= 0 THEN ScrollTo(st, st.Hunks[i + 1].StartLine)
             ELSE IF idx >= 0 /\ idx < Len(st.Hunks) /\ st.Hunks[idx + 1].StartLine >= 0
             THEN ScrollTo(st, st.Hunks[idx + 1].StartLine)
             ELSE st

JumpToNextFile(st) ==
    IF Len(st.Hunks) = 0 THEN st
    ELSE LET currentFile == st.Hunks[CurrentHunkIndex(st) + 1].File
             i == FirstHunk(st, CurrentHunkIndex(st) + 1, Len(st.Hunks) - 1,
                            LAMBDA h : h.File # currentFile /\ h.StartLine >= 0)
         IN  IF i >= 0 THEN ScrollTo(st, st.Hunks[i + 1].StartLine) ELSE st

JumpToPrevFile(st) ==
    IF Len(st.Hunks) = 0 THEN st
    ELSE LET idx == CurrentHunkIndex(st)
             currentFile == st.Hunks[idx + 1].File
             t == LastHunk(st, 0, idx - 1,
                           LAMBDA h : h.File # currentFile /\ h.StartLine >= 0)
         IN  IF t < 0
             THEN IF idx >= 0 /\ idx < Len(st.Hunks) /\ st.Hunks[idx + 1].StartLine >= 0
                  THEN ScrollTo(st, st.Hunks[idx + 1].StartLine)
                  ELSE st
             ELSE LET targetFile == st.Hunks[t + 1].File
                      i == FirstHunk(st, 0, Len(st.Hunks) - 1,
                                     LAMBDA h : h.File = targetFile /\ h.StartLine >= 0)
                  IN  IF i >= 0 THEN ScrollTo(st, st.Hunks[i + 1].StartLine) ELSE st

\* orderedFiles: the file names in the order they first appear in the hunks.
orderedFiles(st) ==
    LET firsts == SelectSeq([i \in 1..Len(st.Hunks) |-> i],
                            LAMBDA i : \A j \in 1..(i - 1) : st.Hunks[j].File # st.Hunks[i].File)
    IN  [k \in 1..Len(firsts) |-> st.Hunks[firsts[k]].File]

SwitchFullFile(st, filename, env) ==
    Then(BuildLines([st EXCEPT !.FullFileName = filename,
                               !.FilterFile = filename,
                               !.Scroll = 0], env),
         ClampScroll)

NextFullFile(st, env) ==
    LET files == orderedFiles(st)
        S == { i \in DOMAIN files : files[i] = st.FullFileName /\ i + 1 <= Len(files) }
    IN  IF S = {} THEN st ELSE SwitchFullFile(st, files[SetMin(S) + 1], env)

PrevFullFile(st, env) ==
    LET files == orderedFiles(st)
        S == { i \in DOMAIN files : files[i] = st.FullFileName /\ i > 1 }
    IN  IF S = {} THEN st ELSE SwitchFullFile(st, files[SetMin(S) - 1], env)

-----------------------------------------------------------------------------
(* File tree: src/keys.go (tree.go part) *)

\* The place of a character of a path in byte order.
Code(c) ==
    LET ascii == <<".", "/">> \o Upper \o <<"_">> \o Lower
    IN  CHOOSE k \in DOMAIN ascii : ascii[k] = c

\* a < b for Go strings: byte-wise lexicographic order.
TextLess(a, b) ==
    \E k \in 1..(Len(b)) :
        /\ k <= Len(a) + 1
        /\ SubSeq(a, 1, k - 1) = SubSeq(b, 1, k - 1)
        /\ (k = Len(a) + 1 \/ Code(a[k]) < Code(b[k]))

\* strings.Split(path, "/").
RECURSIVE SplitPath(_)
SplitPath(path) ==
    LET S == { k \in DOMAIN path : path[k] = "/" }
    IN  IF S = {} THEN <<path>>
        ELSE LET k == SetMin(S)
             IN  <<SubSeq(path, 1, k - 1)>> \o SplitPath(SubSeq(path, k + 1, Len(path)))

\* basename: the part of the path after the last "/".
basename(path) ==
    LET S == { k \in DOMAIN path : path[k] = "/" }
    IN  IF S = {} THEN path ELSE SubSeq(path, SetMax(S) + 1, Len(path))

\* The directory components of a path (all parts but the last).
dirParts(path) ==
    LET parts == SplitPath(path) IN SubSeq(parts, 1, Len(parts) - 1)

\* The keys of the child directories of the dirNode reached by the
\* components dir.
childKeys(files, dir) ==
    { dirParts(files[i].Path)[Len(dir) + 1] :
        i \in { j \in DOMAIN files :
                  /\ Len(dirParts(files[j].Path)) > Len(dir)
                  /\ SubSeq(dirParts(files[j].Path), 1, Len(dir)) = dir } }

\* The files of the dirNode reached by the components dir, in list order.
nodeFiles(files, dir) == SelectSeq(files, LAMBDA tf : dirParts(tf.Path) = dir)

\* A plausible slip in the collapse loop: a directory with one child
\* directory is merged with it even when it has files of its own.
RECURSIVE collapseOverFiles(_, _, _)
collapseOverFiles(files, dir, name) ==
    IF Cardinality(childKeys(files, dir)) = 1
    THEN LET subKey == CHOOSE k \in childKeys(files, dir) : TRUE
         IN  collapseOverFiles(files, Append(dir, subKey), name \o <<"/">> \o subKey)
    ELSE [dir |-> dir, name |-> name]

\* The collapse loop: while the directory has exactly one child directory
\* and no files, merge the child into it.  Returns [dir, name].
RECURSIVE collapse(_, _, _)
collapse(files, dir, name) ==
    IF Cardinality(childKeys(files, dir)) = 1 /\ Len(nodeFiles(files, dir)) = 0
    THEN LET subKey == CHOOSE k \in childKeys(files, dir) : TRUE
         IN  collapse(files, Append(dir, subKey), name \o <<"/">> \o subKey)
    ELSE [dir |-> dir, name |-> name]

\* flatten: the nodes below the dirNode reached by the components dir.
RECURSIVE flatten(_, _, _)
flatten(files, dir, depth) ==
    LET keys == childKeys(files, dir)
        dirKeys == SortSeq(CHOOSE q \in [1..Cardinality(keys) -> keys] :
                               \A a, b \in DOMAIN q : a # b => q[a] # q[b],
                           TextLess)
        sortedFiles == SortSeq(nodeFiles(files, dir),
                               LAMBDA x, y : TextLess(basename(x.Path), basename(y.Path)))
        dirNodes(k) ==
            LET c == collapse(files, Append(dir, dirKeys[k]), dirKeys[k])
            IN  << [Display |-> c.name \o <<"/">>, Path |-> EmptyText, Depth |-> depth,
                    IsDir |-> TRUE, Added |-> 0, Removed |-> 0] >>
                \o flatten(files, c.dir, depth + 1)
    IN  CatRange(dirNodes, 1, Len(dirKeys))
        \o [k \in 1..Len(sortedFiles) |->
               [Display |-> basename(sortedFiles[k].Path), Path |-> sortedFiles[k].Path,
                Depth |-> depth, IsDir |-> FALSE,
                Added |-> sortedFiles[k].Added, Removed |-> sortedFiles[k].Removed]]

\* buildTreeNodes: the flat node list of the file tree.
buildTreeNodes(files) == IF Len(files) = 0 THEN <<>> ELSE flatten(files, <<>>, 0)

\* buildTree: the per-file stats of the hunks, then the tree nodes.
buildTree(st) ==
    LET order == orderedFiles(st)
        count(path, op) ==
            SumRange(LAMBDA i : IF st.Hunks[i].File = path
                                THEN Len(SelectSeq(st.Hunks[i].Lines, LAMBDA l : l.Op = op))
                                ELSE 0,
                     1, Len(st.Hunks))
        treeFiles == [k \in 1..Len(order) |->
                         [Path |-> order[k], Added |-> count(order[k], "+"),
                          Removed |-> count(order[k], "-")]]
    IN  [st EXCEPT !.TreeFiles = treeFiles, !.TreeNodes = buildTreeNodes(treeFiles)]

\* treeFileNodes: the Go indices of the file nodes.
treeFileNodes(nodes) ==
    SelectSeq([i \in 1..Len(nodes) |-> i - 1], LAMBDA i : ~nodes[i + 1].IsDir)

ClampTreeCursor(st) ==
    LET fileIndices == treeFileNodes(st.TreeNodes)
    IN  IF Len(fileIndices) = 0 THEN [st EXCEPT !.TreeCursor = 0]
        ELSE IF st.TreeCursor < 0 THEN [st EXCEPT !.TreeCursor = 0]
        ELSE IF st.TreeCursor >= Len(fileIndices)
        THEN [st EXCEPT !.TreeCursor = Len(fileIndices) - 1]
        ELSE st

\* TreeCursorPath: the path under the tree cursor, "" without file nodes.
\* (It clamps the cursor; see TreeCursorClamped for the state after it.)
TreeCursorPath(st) ==
    LET fileIndices == treeFileNodes(st.TreeNodes)
    IN  IF Len(fileIndices) = 0 THEN EmptyText
        ELSE st.TreeNodes[fileIndices[ClampTreeCursor(st).TreeCursor + 1] + 1].Path

\* The state after TreeCursorPath or TreeCursorNodeIndex.
TreeCursorClamped(st) ==
    IF Len(treeFileNodes(st.TreeNodes)) = 0 THEN st ELSE ClampTreeCursor(st)

\* TreeCursorNodeIndex: the Go index of the node under the cursor, or -1.
TreeCursorNodeIndex(st) ==
    LET fileIndices == treeFileNodes(st.TreeNodes)
    IN  IF Len(fileIndices) = 0 THEN -1
        ELSE fileIndices[ClampTreeCursor(st).TreeCursor + 1]

InitTreeCursorFromScroll(st) ==
    LET currentFile == CurrentFile(st)
        fileIndices == treeFileNodes(st.TreeNodes)
        S == { ci \in DOMAIN fileIndices :
                 st.TreeNodes[fileIndices[ci] + 1].Path = currentFile }
    IN  IF currentFile = EmptyText \/ S = {} THEN [st EXCEPT !.TreeCursor = 0]
        ELSE [st EXCEPT !.TreeCursor = SetMin(S) - 1]

ClampTreeScroll(st) ==
    LET maxVisible == st.Height - 3
        totalNodes == Len(st.TreeNodes)
        maxScroll == totalNodes - maxVisible
    IN  IF totalNodes <= maxVisible THEN [st EXCEPT !.TreeScroll = 0]
        ELSE LET st1 == IF st.TreeScroll < 0 THEN [st EXCEPT !.TreeScroll = 0] ELSE st
             IN  IF st1.TreeScroll > maxScroll THEN [st1 EXCEPT !.TreeScroll = maxScroll]
                 ELSE st1

EnsureTreeCursorVisible(st) ==
    LET nodeIdx == TreeCursorNodeIndex(st)
        st1 == TreeCursorClamped(st)
        maxVisible == IF st.Height - 3 < 1 THEN 1 ELSE st.Height - 3
    IN  IF nodeIdx < 0 THEN st1
        ELSE ClampTreeScroll(
                 IF nodeIdx < st1.TreeScroll THEN [st1 EXCEPT !.TreeScroll = nodeIdx]
                 ELSE IF nodeIdx >= st1.TreeScroll + maxVisible
                 THEN [st1 EXCEPT !.TreeScroll = nodeIdx - maxVisible + 1]
                 ELSE st1)

-----------------------------------------------------------------------------
(* Flash messages, clipboard, hunk commands: src/unnamed/part_004 *)

\* A flash message: the format string and its arguments; secs is the time
\* FlashExpiry lies ahead when the message is set, st.Now what the clock
\* says then, in seconds (time.Now()).
Flash(fmt, args) == [fmt |-> fmt, args |-> args]

NoFlash == Flash("", <<>>)

SetFlash(st, fmt, args, secs) ==
    [st EXCEPT !.FlashMsg = Flash(fmt, args), !.FlashExpiry = st.Now + secs]

\* The format of the follow-mode message for new hunks (its dash is an em
\* dash in the source).
FmtNewHunks == "%d new hunks -- %s"

\* copyToClipboard: the write to the terminal, logged with the result it
\* returns; env.clipOk says whether it succeeds.
copyToClipboard(st, text, env) ==
    Call(st, [op |-> "clipboard", text |-> text, ok |-> env.clipOk])

\* A plausible slip in handleYankHunk: every command yanks the added lines.
handleYankHunkAdded(st, cmd, h, env) ==
    LET hunk == st.Hunks[h]
        st0 == Call(st, [op |-> "handleYankHunk", cmd |-> cmd, hunk |-> h - 1])
        text == AddedLines(hunk)
    IN  IF text = EmptyText THEN st0
        ELSE SetFlash(copyToClipboard(st0, text, env),
                      "Yanked added lines from hunk %s", <<hunk.Label>>, 2)

\* handleYankHunk on the hunk at position h (1-based).
handleYankHunk(st, cmd, h, env) ==
    LET hunk == st.Hunks[h]
        st0 == Call(st, [op |-> "handleYankHunk", cmd |-> cmd, hunk |-> h - 1])
        text == CASE cmd = "y" -> AddedLines(hunk)
                  [] cmd = "Y" -> RemovedLines(hunk)
                  [] cmd = "p" -> AsPatch(hunk)
                  [] cmd = "c" -> ResultLines(hunk)
                  [] OTHER -> EmptyText
        fmt == CASE cmd = "y" -> "Yanked added lines from hunk %s"
                 [] cmd = "Y" -> "Yanked removed lines from hunk %s"
                 [] cmd = "p" -> "Yanked patch from hunk %s"
                 [] cmd = "c" -> "Copied result from hunk %s"
                 [] OTHER -> st.FlashMsg.fmt
    IN  IF text = EmptyText THEN st0
        ELSE IF env.clipOk
        THEN IF cmd \in {"y", "Y", "p", "c"}
             THEN SetFlash(copyToClipboard(st0, text, env), fmt, <<hunk.Label>>, 2)
             ELSE [copyToClipboard(st0, text, env) EXCEPT !.FlashExpiry = st0.Now + 2]
        ELSE SetFlash(copyToClipboard(st0, text, env),
                      "Yank failed for hunk %s: could not write to terminal",
                      <<hunk.Label>>, 2)

\* A plausible slip in handleStageHunk: the flag flips whether or not git
\* succeeds.
handleStageHunkFlip(st, h, env) ==
    LET hunk == st.Hunks[h]
        st0 == Call(st, [op |-> "handleStageHunk", cmd |-> "A", hunk |-> h - 1])
        args == <<"apply", "--cached">> \o (IF hunk.Staged THEN <<"-R">> ELSE <<>>)
        st1 == Call(st0, [op |-> "git", args |-> args, stdin |-> AsFullPatch(hunk),
                          ok |-> env.applyOk])
        st2 == [st1 EXCEPT !.Hunks[h].Staged = ~hunk.Staged]
    IN  IF ~env.applyOk
        THEN SetFlash(st2, "%s failed for hunk %s: %v",
                      <<IF hunk.Staged THEN "Unstage" ELSE "Stage", hunk.Label, "err">>, 2)
        ELSE SetFlash(st2,
                      IF ~hunk.Staged THEN "Staged hunk %s" ELSE "Unstaged hunk %s",
                      <<hunk.Label>>, 2)

\* handleStageHunk on the hunk at position h (1-based): git apply --cached,
\* reversed for a staged hunk; env.applyOk says whether git succeeds, and
\* the logged call carries that result.
handleStageHunk(st, h, env) ==
    LET hunk == st.Hunks[h]
        st0 == Call(st, [op |-> "handleStageHunk", cmd |-> "A", hunk |-> h - 1])
        args == <<"apply", "--cached">> \o (IF hunk.Staged THEN <<"-R">> ELSE <<>>)
        st1 == Call(st0, [op |-> "git", args |-> args, stdin |-> AsFullPatch(hunk),
                          ok |-> env.applyOk])
    IN  IF ~env.applyOk
        THEN SetFlash(st1, "%s failed for hunk %s: %v",
                      <<IF hunk.Staged THEN "Unstage" ELSE "Stage", hunk.Label, "err">>, 2)
        ELSE SetFlash([st1 EXCEPT !.Hunks[h].Staged = ~hunk.Staged],
                      IF ~hunk.Staged THEN "Staged hunk %s" ELSE "Unstaged hunk %s",
                      <<hunk.Label>>, 2)

\* cancelLabelTimer / startLabelTimer: the timer is armed or not.
cancelLabelTimer(st) == [st EXCEPT !.LabelTimer = FALSE]

startLabelTimer(st) == [cancelLabelTimer(st) EXCEPT !.LabelTimer = TRUE]

\* The hunk command of a pending key, on the hunk at position h.
runPending(st, pending, h, env) ==
    IF pending = "A" THEN handleStageHunk(st, h, env)
    ELSE handleYankHunk(st, pending, h, env)

\* ResolvePendingLabel without the final clearing: a plausible slip.
ResolvePendingLabelKeep(st, env) ==
    IF st.PendingKey = "" \/ st.PendingLabel = EmptyText THEN st
    ELSE LET h == HunkByLabel(st, st.PendingLabel)
         IN  IF h # 0 THEN runPending(st, st.PendingKey, h, env) ELSE st

\* ResolvePendingLabel: the handler of EventLabelTimeout.
ResolvePendingLabel(st, env) ==
    IF st.PendingKey = "" \/ st.PendingLabel = EmptyText THEN st
    ELSE LET h == HunkByLabel(st, st.PendingLabel)
             st1 == IF h # 0 THEN runPending(st, st.PendingKey, h, env) ELSE st
         IN  [st1 EXCEPT !.PendingKey = "", !.PendingLabel = EmptyText]

ClearPending(st) ==
    cancelLabelTimer([st EXCEPT !.PendingKey = "", !.PendingLabel = EmptyText])

\* The label branch of handlePending without the fall-back to the label
\* typed so far.
pendingLabelKeyNoFallback(st, r, env) ==
    LET pending == st.PendingKey
        candidate == Append(st.PendingLabel, r)
        h == HunkByLabel(st, candidate)
    IN  IF h # 0 /\ ~hasLabelPrefix(st, candidate)
        THEN runPending(ClearPending(st), pending, h, env)
        ELSE IF hasLabelPrefix(st, candidate) \/ h # 0
        THEN startLabelTimer([st EXCEPT !.PendingLabel = candidate])
        ELSE ClearPending(st)

\* The label branch of handlePending (pending y, Y, p, c or A) for rune r.
pendingLabelKey(st, r, env) ==
    LET pending == st.PendingKey
        candidate == Append(st.PendingLabel, r)
        h == HunkByLabel(st, candidate)
        hp == HunkByLabel(st, st.PendingLabel)
    IN  IF h # 0 /\ ~hasLabelPrefix(st, candidate)
        THEN runPending(ClearPending(st), pending, h, env)
        ELSE IF hasLabelPrefix(st, candidate) \/ h # 0
        THEN startLabelTimer([st EXCEPT !.PendingLabel = candidate])
        ELSE IF st.PendingLabel # EmptyText /\ hp # 0
        THEN runPending(ClearPending(st), pending, hp, env)
        ELSE ClearPending(st)

\* handlePending: the key after ], [, y, Y, p, c or A.
handlePending(st, e, env) ==
    IF e.Key # "Rune" THEN ClearPending(st)
    ELSE IF st.PendingKey = "]"
    THEN LET st1 == [st EXCEPT !.PendingKey = ""]
         IN  IF e.Rune = "c" THEN JumpToNextHunk(st1)
             ELSE IF e.Rune = "f"
             THEN IF st1.FullFile THEN NextFullFile(st1, env) ELSE JumpToNextFile(st1)
             ELSE st1
    ELSE IF st.PendingKey = "["
    THEN LET st1 == [st EXCEPT !.PendingKey = ""]
         IN  IF e.Rune = "c" THEN JumpToPrevHunk(st1)
             ELSE IF e.Rune = "f"
             THEN IF st1.FullFile THEN PrevFullFile(st1, env) ELSE JumpToPrevFile(st1)
             ELSE st1
    ELSE IF st.PendingKey \in {"y", "Y", "p", "c", "A"}
    THEN pendingLabelKey(st, e.Rune, env)
    ELSE st

-----------------------------------------------------------------------------
(* Search mode: src/search.go *)

StartSearch(st) ==
    [st EXCEPT !.SearchMode = TRUE, !.SearchQuery = EmptyText,
               !.SearchMatches = <<>>, !.SearchIdx = -1]

EndSearch(st) == [st EXCEPT !.SearchMode = FALSE]

\* ClearSearch with the query left in place.
ClearSearchKeepQuery(st) ==
    [st EXCEPT !.SearchMode = FALSE, !.SearchMatches = <<>>, !.SearchIdx = -1]

ClearSearch(st) ==
    [st EXCEPT !.SearchMode = FALSE, !.SearchQuery = EmptyText,
               !.SearchMatches = <<>>, !.SearchIdx = -1]

\* A plausible slip in HandleSearchKey: Enter leaves the prompt without
\* going to the first match.
HandleSearchKeyNoJump(st, e) ==
    CASE e.Key = "Escape" -> ClearSearch(st)
      [] e.Key = "Enter" -> EndSearch(UpdateMatches(st))
      [] e.Key \in {"Backspace", "Backspace2"} ->
            IF Len(st.SearchQuery) > 0
            THEN UpdateMatches([st EXCEPT !.SearchQuery = SubSeq(@, 1, Len(@) - 1)])
            ELSE st
      [] e.Key = "Rune" -> UpdateMatches([st EXCEPT !.SearchQuery = Append(@, e.Rune)])
      [] OTHER -> st

\* HandleSearchKey: the keys of the search prompt.
HandleSearchKey(st, e) ==
    CASE e.Key = "Escape" -> ClearSearch(st)
      [] e.Key = "Enter" ->
            Then(UpdateMatches(st), LAMBDA st1 :
              EndSearch(IF Len(st1.SearchMatches) > 0
                        THEN ScrollTo([st1 EXCEPT !.SearchIdx = 0], st1.SearchMatches[1])
                        ELSE st1))
      [] e.Key \in {"Backspace", "Backspace2"} ->
            IF Len(st.SearchQuery) > 0
            THEN UpdateMatches([st EXCEPT !.SearchQuery = SubSeq(@, 1, Len(@) - 1)])
            ELSE st
      [] e.Key = "Rune" -> UpdateMatches([st EXCEPT !.SearchQuery = Append(@, e.Rune)])
      [] OTHER -> st

\* A plausible slip in JumpToNextMatch: the index stops at the last match.
JumpToNextMatchNoWrap(st) ==
    IF Len(st.SearchMatches) = 0 THEN st
    ELSE LET idx == IF st.SearchIdx + 1 >= Len(st.SearchMatches)
                    THEN Len(st.SearchMatches) - 1
                    ELSE st.SearchIdx + 1
         IN  ScrollTo([st EXCEPT !.SearchIdx = idx], st.SearchMatches[idx + 1])

JumpToNextMatch(st) ==
    IF Len(st.SearchMatches) = 0 THEN st
    ELSE LET idx == IF st.SearchIdx + 1 >= Len(st.SearchMatches) THEN 0
                    ELSE st.SearchIdx + 1
         IN  ScrollTo([st EXCEPT !.SearchIdx = idx], st.SearchMatches[idx + 1])

JumpToPrevMatch(st) ==
    IF Len(st.SearchMatches) = 0 THEN st
    ELSE LET idx == IF st.SearchIdx - 1 < 0 THEN Len(st.SearchMatches) - 1
                    ELSE st.SearchIdx - 1
         IN  ScrollTo([st EXCEPT !.SearchIdx = idx], st.SearchMatches[idx + 1])

-----------------------------------------------------------------------------
(* Loading and reloading the diff: src/unnamed/part_005 (main.go).  The     *)
(* environment says what git answers:                                       *)
(*   env.diff  the fragments of the parsed output of git diff, or the     *)
(*             failure: git cannot be run ("run"), or its output does not   *)
(*             parse ("parse")                                              *)

Diff(frags) == [err |-> "", frags |-> frags]

DiffError(err) == [err |-> err, frags |-> <<>>]

\* runGitDiff: the call, logged.
runGitDiff(st) ==
    Call(st, GitCall(<<"diff", "--no-color", "-U", st.ContextLines>>
                     \o (IF st.Staged THEN <<"--staged">> ELSE <<>>) \o st.Refs))

\* loadDiff: returns [st, err].  In pipe mode the diff is read from stdin.
loadDiff(st, env) ==
    LET st1 == IF st.PipeMode THEN Call(st, [op |-> "stdin"]) ELSE runGitDiff(st)
    IN  IF env.diff.err # ""
        THEN [st |-> Call(st1, [op |-> "loadDiff", err |-> TRUE]), err |-> TRUE]
        ELSE Then(buildTree([st1 EXCEPT !.Hunks = parseDiff(env.diff.frags)]),
                  LAMBDA st2 :
                    Then(BuildLines(st2, env), LAMBDA st3 :
                      [st  |-> Call(ClampScroll(st3), [op |-> "loadDiff", err |-> FALSE]),
                       err |-> FALSE]))

\* A plausible slip in the follow-mode part of reloadDiff: the count of new
\* hunks is the length of the new list, the old length is not taken off.
followNewHunkCountAll(st, oldHunks) ==
    LET oldFingerprints == { hunkFingerprint(oldHunks[i]) : i \in DOMAIN oldHunks }
        newCount == Len(st.Hunks)
        firstNewIdx == FirstHunk(st, 0, Len(st.Hunks) - 1,
                                 LAMBDA h : hunkFingerprint(h) \notin oldFingerprints)
    IN  IF st.FollowMode /\ Len(st.Hunks) > 0 /\ firstNewIdx >= 0
           /\ st.Hunks[firstNewIdx + 1].StartLine >= 0
        THEN LET file == st.Hunks[firstNewIdx + 1].File
                 st1 == ClampScroll([st EXCEPT !.Scroll = st.Hunks[firstNewIdx + 1].StartLine])
             IN  [st   |-> IF newCount > 0
                           THEN SetFlash(st1, FmtNewHunks, <<newCount, file>>, 2)
                           ELSE SetFlash(st1, "Changes in %s", <<file>>, 2),
                  done |-> TRUE]
        ELSE [st |-> st, done |-> FALSE]

\* The follow-mode part of reloadDiff: [st, done].
followNewHunk(st, oldHunks) ==
    LET oldFingerprints == { hunkFingerprint(oldHunks[i]) : i \in DOMAIN oldHunks }
        newCount == Len(st.Hunks) - Len(oldHunks)
        firstNewIdx == FirstHunk(st, 0, Len(st.Hunks) - 1,
                                 LAMBDA h : hunkFingerprint(h) \notin oldFingerprints)
    IN  IF st.FollowMode /\ Len(st.Hunks) > 0 /\ firstNewIdx >= 0
           /\ st.Hunks[firstNewIdx + 1].StartLine >= 0
        THEN LET file == st.Hunks[firstNewIdx + 1].File
                 st1 == ClampScroll([st EXCEPT !.Scroll = st.Hunks[firstNewIdx + 1].StartLine])
             IN  [st   |-> IF newCount > 0
                           THEN SetFlash(st1, FmtNewHunks, <<newCount, file>>, 2)
                           ELSE SetFlash(st1, "Changes in %s", <<file>>, 2),
                  done |-> TRUE]
        ELSE [st |-> st, done |-> FALSE]

\* A plausible slip at the end of reloadDiff: the scroll position before is
\* kept whether or not the file shown before has a header.
restoreScrollKeep(st, prevFile, prevScroll) ==
    ClampScroll([st EXCEPT !.Scroll = prevScroll])

\* The end of reloadDiff: back to the header of the file shown before, else
\* to the scroll position before.
restoreScroll(st, prevFile, prevScroll) ==
    LET S == { i \in DOMAIN st.Lines :
                 st.Lines[i].Style = StyleFileHeader /\ st.Lines[i].Text = prevFile }
    IN  IF prevFile # EmptyText /\ S # {}
        THEN ClampScroll([st EXCEPT !.Scroll = SetMin(S) - 1])
        ELSE ClampScroll([st EXCEPT !.Scroll = prevScroll])

\* reloadDiff: the log entry tells whether the reload went through and which
\* file was the current one before it.
reloadDiff(st, env) ==
    LET prevFile == CurrentFile(st)
        prevScroll == st.Scroll
        st1 == runGitDiff(st)
    IN  IF env.diff.err # ""
        THEN Call(st1, [op |-> "reloadDiff", err |-> TRUE, prevFile |-> prevFile])
        ELSE Then(buildTree([st1 EXCEPT !.Hunks = parseDiff(env.diff.frags)]),
                  LAMBDA st2 :
                    Then(Call(BuildLines(st2, env),
                              [op |-> "reloadDiff", err |-> FALSE, prevFile |-> prevFile]),
                         LAMBDA st3 :
                           Then(followNewHunk(st3, st.Hunks), LAMBDA f :
                             IF f.done THEN f.st
                             ELSE restoreScroll(st3, prevFile, prevScroll))))

-----------------------------------------------------------------------------
(* The editor: src/unnamed/part_000 (editor.go).                            *)
(*   env.stat    os.Stat finds the file                                     *)
(*   env.editor  the editor exits without error                             *)

openInEditor(st, file, lineNo, env) ==
    LET st1 == Call(st, GitCall(<<"rev-parse", "--show-toplevel">>))
    IN  IF ~env.stat THEN SetFlash(st1, "File not found: %s", <<file>>, 2)
        ELSE LET st2 == Call(st1, [op |-> "editor",
                                   args |-> (IF lineNo > 0 THEN <<lineNo>> ELSE <<>>)
                                            \o <<file>>])
             IN  IF env.editor THEN st2
                 ELSE SetFlash(st2, "Editor error: %v", <<"err">>, 3)

-----------------------------------------------------------------------------
(* Key handling: src/unnamed/part_004 (input.go) *)

\* A key event: the tcell key, and the rune of a KeyRune event.
KeyEv(key, rune) == [x |-> 0, y |-> 0, Key |-> key, Rune |-> rune, kind |-> "key"]

Rune(r) == KeyEv("Rune", r)

\* The editor on a file, then the reload unless the diff came from a pipe.
editAndReload(st, file, lineNo, env) ==
    Then(openInEditor(st, file, lineNo, env),
         LAMBDA st1 : IF ~st1.PipeMode THEN reloadDiff(st1, env) ELSE st1)

\* BuildLines, then ClampScroll.
Rebuild(st, env) == Then(BuildLines(st, env), ClampScroll)

handleTreeSelect(st, env) ==
    LET path == TreeCursorPath(st)
        st0 == TreeCursorClamped(st)
    IN  IF path = EmptyText THEN st0
        ELSE LET st1 == [st0 EXCEPT !.FilterFile = IF @ = path THEN EmptyText ELSE path]
                 st2 == IF st1.FullFile
                        THEN [st1 EXCEPT !.FullFileName =
                                 IF st1.FilterFile # EmptyText THEN st1.FilterFile ELSE path]
                        ELSE st1
             IN  Then(BuildLines(st2, env),
                      LAMBDA st3 : ClampScroll([st3 EXCEPT !.Scroll = 0]))

treeMoveCursor(st, delta) ==
    IF Len(treeFileNodes(st.TreeNodes)) = 0 THEN st
    ELSE EnsureTreeCursorVisible(ClampTreeCursor([st EXCEPT !.TreeCursor = @ + delta]))

\* handleTreeRune with e closing the tree and leaving the focus on it.
handleTreeRuneKeepFocus(st, r, env) ==
    LET fileIndices == treeFileNodes(st.TreeNodes)
        file == TreeCursorPath(st)
    IN  [quit |-> r = "q",
         st |->
           CASE r = "j" -> treeMoveCursor(st, 1)
             [] r = "k" -> treeMoveCursor(st, -1)
             [] r = "a" -> IF st.FilterFile # EmptyText
                           THEN Rebuild([st EXCEPT !.FilterFile = EmptyText], env)
                           ELSE st
             [] r = "o" -> IF file # EmptyText
                           THEN editAndReload(TreeCursorClamped(st), file, 0, env)
                           ELSE TreeCursorClamped(st)
             [] r = "e" -> Rebuild([st EXCEPT !.TreeOpen = FALSE], env)
             [] r = "g" -> EnsureTreeCursorVisible([st EXCEPT !.TreeCursor = 0])
             [] r = "G" -> EnsureTreeCursorVisible(
                               IF Len(fileIndices) > 0
                               THEN [st EXCEPT !.TreeCursor = Len(fileIndices) - 1]
                               ELSE st)
             [] OTHER -> st]

\* handleTreeRune: [st, quit].
handleTreeRune(st, r, env) ==
    LET fileIndices == treeFileNodes(st.TreeNodes)
        file == TreeCursorPath(st)
    IN  [quit |-> r = "q",
         st |->
           CASE r = "j" -> treeMoveCursor(st, 1)
             [] r = "k" -> treeMoveCursor(st, -1)
             [] r = "a" -> IF st.FilterFile # EmptyText
                           THEN Rebuild([st EXCEPT !.FilterFile = EmptyText], env)
                           ELSE st
             [] r = "o" -> IF file # EmptyText
                           THEN editAndReload(TreeCursorClamped(st), file, 0, env)
                           ELSE TreeCursorClamped(st)
             [] r = "e" -> Rebuild([st EXCEPT !.TreeOpen = FALSE, !.TreeFocused = FALSE], env)
             [] r = "g" -> EnsureTreeCursorVisible([st EXCEPT !.TreeCursor = 0])
             [] r = "G" -> EnsureTreeCursorVisible(
                               IF Len(fileIndices) > 0
                               THEN [st EXCEPT !.TreeCursor = Len(fileIndices) - 1]
                               ELSE st)
             [] OTHER -> st]

\* handleTreeKey: [st, quit].
handleTreeKey(st, e, env) ==
    CASE e.Key = "Escape" ->
            [quit |-> FALSE,
             st |-> IF st.FilterFile # EmptyText
                    THEN Rebuild([st EXCEPT !.FilterFile = EmptyText], env)
                    ELSE [st EXCEPT !.TreeFocused = FALSE]]
      [] e.Key = "Tab" -> [quit |-> FALSE, st |-> [st EXCEPT !.TreeFocused = FALSE]]
      [] e.Key = "Enter" -> [quit |-> FALSE, st |-> handleTreeSelect(st, env)]
      [] e.Key = "Up" -> [quit |-> FALSE, st |-> treeMoveCursor(st, -1)]
      [] e.Key = "Down" -> [quit |-> FALSE, st |-> treeMoveCursor(st, 1)]
      [] e.Key = "Rune" -> handleTreeRune(st, e.Rune, env)
      [] OTHER -> [quit |-> FALSE, st |-> st]

\* The f key: full-file view on the filtered file, else the current file,
\* else the file of the first hunk.
toggleFullFile(st, env) ==
    LET st1 == [st EXCEPT !.FullFile = ~@]
        name == IF st1.FilterFile # EmptyText THEN st1.FilterFile ELSE CurrentFile(st1)
        st2 == IF st1.FullFile
               THEN [st1 EXCEPT !.FullFileName =
                        IF name = EmptyText /\ Len(st1.Hunks) > 0
                        THEN st1.Hunks[1].File ELSE name]
               ELSE st1
    IN  Rebuild(st2, env)

\* handleRune: [st, quit].
handleRune(st, r, env) ==
    LET file == CurrentFile(st)
    IN  [quit |-> r = "q",
         st |->
           CASE r = "j" -> ScrollBy(st, 1)
             [] r = "k" -> ScrollBy(st, -1)
             [] r = "d" -> ScrollBy(st, st.Height \div 2)
             [] r = "u" -> ScrollBy(st, -(st.Height \div 2))
             [] r = "s" -> Rebuild([st EXCEPT !.SideBySide = ~@], env)
             [] r = "n" -> IF Len(st.SearchMatches) > 0 THEN JumpToNextMatch(st)
                           ELSE Rebuild([st EXCEPT !.LineNumbers = ~@], env)
             [] r = "w" -> Rebuild([st EXCEPT !.Wrap = ~@,
                                              !.ScrollX = IF ~st.Wrap THEN 0 ELSE @], env)
             [] r = "e" -> Rebuild([st EXCEPT !.TreeOpen = ~@,
                                              !.TreeFocused = IF st.TreeOpen THEN FALSE ELSE @],
                                   env)
             [] r = "h" -> [st EXCEPT !.SyntaxHighlight = ~@]
             [] r = "b" -> [st EXCEPT !.DiffBg = ~@]
             [] r \in {"+", "="} ->
                    IF ~st.PipeMode
                    THEN loadDiff([st EXCEPT !.ContextLines = @ + 1], env).st
                    ELSE st
             [] r = "-" ->
                    IF ~st.PipeMode /\ st.ContextLines > 0
                    THEN loadDiff([st EXCEPT !.ContextLines = @ - 1], env).st
                    ELSE st
             [] r = "g" -> ScrollTo(st, 0)
             [] r = "G" -> ScrollTo(st, MaxScroll(st))
             [] r = "/" -> StartSearch(st)
             [] r = "N" -> JumpToPrevMatch(st)
             [] r = "o" -> IF file # EmptyText
                           THEN editAndReload(st, file, CurrentLineNo(st), env)
                           ELSE st
             [] r = "W" -> IF ~st.PipeMode
                           THEN SetFlash([st EXCEPT !.WatchEnabled = ~@],
                                         IF ~st.WatchEnabled THEN "Watch mode enabled"
                                         ELSE "Watch mode disabled", <<>>, 2)
                           ELSE st
             [] r = "f" -> toggleFullFile(st, env)
             [] r = "?" -> [st EXCEPT !.ShowHelp = TRUE]
             [] r = "F" -> IF ~st.PipeMode
                           THEN SetFlash([st EXCEPT !.FollowMode = ~@],
                                         IF ~st.FollowMode THEN "Follow mode enabled"
                                         ELSE "Follow mode disabled", <<>>, 2)
                           ELSE st
             [] r \in {"]", "[", "y", "Y", "p", "c", "A"} -> [st EXCEPT !.PendingKey = r]
             [] OTHER -> st]

\* The switch of HandleKey for a key in normal mode: [st, quit].
handleNormalKey(st, e, env) ==
    CASE e.Key = "Escape" ->
            IF Len(st.SearchMatches) > 0 THEN [quit |-> FALSE, st |-> ClearSearch(st)]
            ELSE [quit |-> TRUE, st |-> st]
      [] e.Key = "Tab" ->
            [quit |-> FALSE,
             st |-> IF st.TreeOpen
                    THEN EnsureTreeCursorVisible(
                             InitTreeCursorFromScroll([st EXCEPT !.TreeFocused = TRUE]))
                    ELSE IF st.FullFile THEN NextFullFile(st, env)
                    ELSE JumpToNextFile(st)]
      [] e.Key = "Backtab" ->
            [quit |-> FALSE,
             st |-> IF st.TreeOpen /\ st.TreeFocused THEN [st EXCEPT !.TreeFocused = FALSE]
                    ELSE IF st.FullFile THEN PrevFullFile(st, env)
                    ELSE JumpToPrevFile(st)]
      [] e.Key = "Up" -> [quit |-> FALSE, st |-> ScrollBy(st, -1)]
      [] e.Key = "Down" -> [quit |-> FALSE, st |-> ScrollBy(st, 1)]
      [] e.Key = "Left" ->
            [quit |-> FALSE,
             st |-> IF ~st.Wrap \/ st.SideBySide
                    THEN [st EXCEPT !.ScrollX = Max2(0, @ - 4)] ELSE st]
      [] e.Key = "Right" ->
            [quit |-> FALSE,
             st |-> IF ~st.Wrap \/ st.SideBySide THEN [st EXCEPT !.ScrollX = @ + 4] ELSE st]
      [] e.Key = "CtrlD" -> [quit |-> FALSE, st |-> ScrollBy(st, st.Height \div 2)]
      [] e.Key = "CtrlU" -> [quit |-> FALSE, st |-> ScrollBy(st, -(st.Height \div 2))]
      [] e.Key = "Rune" -> handleRune(st, e.Rune, env)
      [] OTHER -> [quit |-> FALSE, st |-> st]

\* HandleKey with the overlay hidden and the key handled as well.
HandleKeyThrough(st, e, env) ==
    IF st.SearchMode THEN [quit |-> FALSE, st |-> HandleSearchKey(st, e)]
    ELSE IF st.TreeFocused THEN handleTreeKey([st EXCEPT !.ShowHelp = FALSE], e, env)
    ELSE IF st.PendingKey # "" THEN [quit |-> FALSE, st |-> handlePending(st, e, env)]
    ELSE handleNormalKey([st EXCEPT !.ShowHelp = FALSE], e, env)

\* HandleKey: [st, quit].
HandleKey(st, e, env) ==
    IF st.ShowHelp THEN [quit |-> FALSE, st |-> [st EXCEPT !.ShowHelp = FALSE]]
    ELSE IF st.SearchMode THEN [quit |-> FALSE, st |-> HandleSearchKey(st, e)]
    ELSE IF st.TreeFocused THEN handleTreeKey(st, e, env)
    ELSE IF st.PendingKey # "" THEN [quit |-> FALSE, st |-> handlePending(st, e, env)]
    ELSE handleNormalKey(st, e, env)

-----------------------------------------------------------------------------
(* Mouse handling: src/unnamed/part_004 (input.go) *)

\* A mouse event: the button, the position, and whether it comes within
\* 400 ms of the click before.
MouseEv(button, x, y, fast) ==
    [x |-> x, y |-> y, Key |-> button, Rune |-> "", kind |-> "mouse", fast |-> fast]

handleTreeClick(st, y, env) ==
    LET nodeIdx == st.TreeScroll + (y - 2)
        fileIndices == treeFileNodes(st.TreeNodes)
        S == { ci \in DOMAIN fileIndices : fileIndices[ci] = nodeIdx }
    IN  IF nodeIdx < 0 \/ nodeIdx >= Len(st.TreeNodes) THEN st
        ELSE IF st.TreeNodes[nodeIdx + 1].IsDir \/ S = {} THEN st
        ELSE handleTreeSelect([st EXCEPT !.TreeCursor = SetMin(S) - 1], env)

\* copyClickedChunk with a failed write passed over in silence.
copyClickedChunkSilent(st, x, y, env) ==
    LET lineIdx == st.Scroll + y
        line == st.Lines[lineIdx + 1]
        hunk == st.Hunks[line.HunkIdx + 1]
        lnoExtra == IF st.LineNumbers THEN 5 ELSE 0
        colWidth == (st.DiffWidth - st.LabelGutter - 1) \div 2
        midpoint == st.DiffX + st.LabelGutter + lnoExtra + colWidth
        wantAdded == IF st.SideBySide THEN x >= midpoint ELSE line.Style = StyleAdded
        text == IF wantAdded THEN AddedLines(hunk) ELSE RemovedLines(hunk)
        kind == IF wantAdded THEN "added" ELSE "removed"
    IN  IF lineIdx < 0 \/ lineIdx >= Len(st.Lines) THEN st
        ELSE IF line.Style \notin {StyleAdded, StyleRemoved, StyleContext} THEN st
        ELSE IF /\ line.Style = StyleContext
                /\ line.Left.Style \notin {StyleAdded, StyleRemoved}
                /\ line.Right.Style \notin {StyleAdded, StyleRemoved} THEN st
        ELSE IF line.HunkIdx < 0 \/ line.HunkIdx >= Len(st.Hunks) THEN st
        ELSE IF text = EmptyText THEN st
        ELSE IF env.clipOk
        THEN SetFlash(copyToClipboard(st, text, env), "Copied %s lines from hunk %s",
                      <<kind, hunk.Label>>, 2)
        ELSE copyToClipboard(st, text, env)

\* copyClickedChunk: the added or removed lines of the hunk of the clicked
\* row.
copyClickedChunk(st, x, y, env) ==
    LET lineIdx == st.Scroll + y
        line == st.Lines[lineIdx + 1]
        hunk == st.Hunks[line.HunkIdx + 1]
        lnoExtra == IF st.LineNumbers THEN 5 ELSE 0
        colWidth == (st.DiffWidth - st.LabelGutter - 1) \div 2
        midpoint == st.DiffX + st.LabelGutter + lnoExtra + colWidth
        wantAdded == IF st.SideBySide THEN x >= midpoint ELSE line.Style = StyleAdded
        text == IF wantAdded THEN AddedLines(hunk) ELSE RemovedLines(hunk)
        kind == IF wantAdded THEN "added" ELSE "removed"
    IN  IF lineIdx < 0 \/ lineIdx >= Len(st.Lines) THEN st
        ELSE IF line.Style \notin {StyleAdded, StyleRemoved, StyleContext} THEN st
        ELSE IF /\ line.Style = StyleContext
                /\ line.Left.Style \notin {StyleAdded, StyleRemoved}
                /\ line.Right.Style \notin {StyleAdded, StyleRemoved} THEN st
        ELSE IF line.HunkIdx < 0 \/ line.HunkIdx >= Len(st.Hunks) THEN st
        ELSE IF text = EmptyText THEN st
        ELSE IF env.clipOk
        THEN SetFlash(copyToClipboard(st, text, env), "Copied %s lines from hunk %s",
                      <<kind, hunk.Label>>, 2)
        ELSE SetFlash(copyToClipboard(st, text, env),
                      "Copy failed: could not write to terminal", <<>>, 2)

\* HandleDiffClick: a second click on the same row within 400 ms copies.
HandleDiffClick(st, e, env) ==
    LET isDouble == e.fast /\ st.LastClick /\ e.y = st.LastClickY
        st1 == [st EXCEPT !.LastClick = TRUE, !.LastClickY = e.y]
    IN  IF isDouble THEN copyClickedChunk(st1, e.x, e.y, env) ELSE st1

HandleDiffRightClick(st, e, env) == copyClickedChunk(st, e.x, e.y, env)

\* The EventMouse case of the event loop of main.
handleMouse(st, e, env) ==
    CASE e.Key = "WheelUp" -> ScrollBy(st, -3)
      [] e.Key = "WheelDown" -> ScrollBy(st, 3)
      [] e.Key = "Button1" ->
            IF st.TreeOpen /\ e.x < treeWidth THEN handleTreeClick(st, e.y, env)
            ELSE IF e.y < st.Height - 1 THEN HandleDiffClick(st, e, env)
            ELSE st
      [] e.Key = "Button3" ->
            IF (~st.TreeOpen \/ e.x >= treeWidth) /\ e.y < st.Height - 1
            THEN HandleDiffRightClick(st, e, env)
            ELSE st
      [] OTHER -> st

-----------------------------------------------------------------------------
(* Startup: src/unnamed/part_005 (main.go) *)

\* The State main builds from the command-line options and the screen size,
\* before loadDiff.
NewState(opts, w, h, pipe) ==
    [Refs |-> opts.refs, Staged |-> opts.staged, Hunks |-> <<>>, Scroll |-> 0,
     Height |-> h, Width |-> w, PendingKey |-> "", PendingLabel |-> EmptyText,
     Lines |-> <<>>, PipeMode |-> pipe, SideBySide |-> opts.sideBySide,
     LineNumbers |-> ~opts.noLineNumbers, ContextLines |-> opts.contextLines,
     Wrap |-> ~opts.noWrap, ScrollX |-> 0, WatchEnabled |-> ~pipe,
     SyntaxHighlight |-> ~opts.noSyntax,
     SearchMode |-> FALSE, SearchQuery |-> EmptyText, SearchMatches |-> <<>>,
     SearchIdx |-> 0,
     TreeOpen |-> opts.explorer, TreeFiles |-> <<>>, TreeNodes |-> <<>>,
     TreeFocused |-> opts.explorer, TreeCursor |-> 0, TreeScroll |-> 0,
     FilterFile |-> EmptyText, DiffX |-> 0, DiffWidth |-> 0, LabelGutter |-> 0,
     DiffBg |-> ~opts.noDiffBg, FullFile |-> FALSE, FullFileName |-> EmptyText,
     FollowMode |-> FALSE, ShowHelp |-> FALSE, FlashMsg |-> NoFlash, FlashExpiry |-> 0,
     LabelTimer |-> FALSE, LastClick |-> FALSE, LastClickY |-> 0, Out |-> <<>>,
     Now |-> 0, StatusFlash |-> NoFlash]

\* parseArgs: the options of a command line made of these flags, without
\* refs; three context lines unless -U says otherwise.
parseArgs(flags) ==
    [refs |-> <<>>, contextLines |-> 3,
     sideBySide |-> "-s" \in flags,
     explorer |-> "-e" \in flags,
     noWrap |-> "-W" \in flags,
     noLineNumbers |-> "-N" \in flags,
     noDiffBg |-> "-B" \in flags,
     noSyntax |-> "-S" \in flags,
     staged |-> "--staged" \in flags]

\* The state when the event loop starts: main leaves with exit code 1 when
\* the first loadDiff fails, so the first diff is one that loads.
Started(flags, w, h, pipe, env) ==
    [loadDiff(NewState(parseArgs(flags), w, h, pipe), env).st EXCEPT !.Out = <<>>]

-----------------------------------------------------------------------------
(* The event loop: src/unnamed/part_005 (main.go), lines 125-172 *)

\* What the environment answers while one event is handled.
Env(diff, disk, show, ok) ==
    [root |-> ok, disk |-> disk, show |-> show, clipOk |-> ok, applyOk |-> ok,
     diff |-> diff, stat |-> ok, editor |-> ok]

\* An event that is neither key nor mouse: "resize" with the new size,
\* "timeout" (EventLabelTimeout), "reload" (EventReload), "fire" (the label
\* timer goes off), "start" (the first render).
LoopEv(kind, x, y) == [x |-> x, y |-> y, Key |-> "", Rune |-> "", kind |-> kind]

\* The state an event finds: the log of the event before is dropped.
Fresh(st) == [st EXCEPT !.Out = <<>>]

\* case *tcell.EventKey
KeyEvent(keys, envs) ==
    /\ ~quit
    /\ \E e \in keys, env \in envs :
          \E r \in {HandleKey(Fresh(s), e, env)} :
              /\ s' = r.st
              /\ quit' = r.quit
              /\ ev' = e
    /\ UNCHANGED <<timeouts, parsed, watch, recon>>

\* case *tcell.EventMouse
MouseEvent(events, envs) ==
    /\ ~quit
    /\ \E e \in events, env \in envs :
          /\ s' = handleMouse(Fresh(s), e, env)
          /\ ev' = e
    /\ UNCHANGED <<quit, timeouts, parsed, watch, recon>>

\* case *tcell.EventResize
ResizeEvent(sizes, envs) ==
    /\ ~quit
    /\ \E size \in sizes, env \in envs :
          /\ s' = Rebuild([Fresh(s) EXCEPT !.Width = size[1], !.Height = size[2]], env)
          /\ ev' = LoopEv("resize", size[1], size[2])
    /\ UNCHANGED <<quit, timeouts, parsed, watch, recon>>

\* The label timer fires: its callback posts an EventLabelTimeout.
TimerFire(maxPosted) ==
    /\ ~quit
    /\ s.LabelTimer
    /\ timeouts < maxPosted
    /\ s' = [s EXCEPT !.LabelTimer = FALSE]
    /\ timeouts' = timeouts + 1
    /\ ev' = LoopEv("fire", 0, 0)
    /\ UNCHANGED <<quit, parsed, watch, recon>>

\* case *EventLabelTimeout
TimeoutEvent(envs) ==
    /\ ~quit
    /\ timeouts > 0
    /\ \E env \in envs : s' = ResolvePendingLabel(Fresh(s), env)
    /\ timeouts' = timeouts - 1
    /\ ev' = LoopEv("timeout", 0, 0)
    /\ UNCHANGED <<quit, parsed, watch, recon>>

\* case *EventReload: the watcher runs only when the diff is not piped in.
ReloadEvent(envs) ==
    /\ ~quit
    /\ ~s.PipeMode
    /\ \E env \in envs :
          s' = IF s.WatchEnabled THEN reloadDiff(Fresh(s), env) ELSE Fresh(s)
    /\ ev' = LoopEv("reload", 0, 0)
    /\ UNCHANGED <<quit, timeouts, parsed, watch, recon>>

\* One turn of the loop of parseDiff: the next fragment gets the label of
\* its position.
ParseFragment(maxHunks) ==
    /\ Len(parsed) < maxHunks
    /\ parsed' = Append(parsed, indexToLabel(Len(parsed)))
    /\ UNCHANGED <<s, quit, timeouts, ev, watch, recon>>

-----------------------------------------------------------------------------
(* The label assignment of one parse *)

\* The most fragments of one diff: enough to pass the index where the first
\* character of a two-character label is clamped.
MaxHunks == 820

\* A hunk of one added and one removed line at line n of a file.
SmallFrag(file, n) ==
    Frag(file, EmptyText, n, n, <<Line("-", <<"o">>), Line("+", <<"n">>)>>)

FileA == <<"a">>

NoEnv == Env(Diff(<<>>), Nil, Nil, TRUE)

InitLabel ==
    /\ s = Started({}, 80, 24, FALSE, NoEnv)
    /\ quit = FALSE
    /\ timeouts = 0
    /\ ev = LoopEv("start", 0, 0)
    /\ parsed = <<>>
    /\ watch = IdleWatch
    /\ recon = NoFiles

NextLabel == ParseFragment(MaxHunks)

SpecLabel == InitLabel /\ [][NextLabel]_vars

\* C4 (as claimed): within one parse no two hunks share a label.  Every
\* prefix of the parse is a state, so it is enough that the label appended
\* last differs from all labels before it.
C4_LabelsUnique ==
    \A i \in 1..(Len(parsed) - 1) : parsed[i] # parsed[Len(parsed)]

\* The alphabet A of the label registry: the lowercase letters, then the
\* uppercase letters, without the reserved keys.
LabelAlphabet == SelectSeq(Lower \o Upper, LAMBDA c : c \notin reservedKeys)

\* C5: the label of index i is the single character A[i], not a reserved
\* key, when i < |A|; otherwise it is the two characters
\* A[min((i - |A|) div |A|, |A| - 1)] and A[(i - |A|) mod |A|].
C5_LabelFormula ==
    \A k \in DOMAIN parsed :
        LET i == k - 1
            n == Len(LabelAlphabet)
        IN  IF i < n
            THEN /\ parsed[k] = <<LabelAlphabet[i + 1]>>
                 /\ parsed[k][1] \notin reservedKeys
            ELSE /\ Len(parsed[k]) = 2
                 /\ parsed[k][1] = LabelAlphabet[Min2((i - n) \div n, n - 1) + 1]
                 /\ parsed[k][2] = LabelAlphabet[((i - n) % n) + 1]

\* C5 witness: a parse that has labelled single-character indices,
\* two-character indices, and an index past |A| + |A|^2 where the first
\* character is A[|A| - 1].
C5_Witness ==
    /\ Len(parsed) > Len(LabelAlphabet) + Len(LabelAlphabet) * Len(LabelAlphabet)
    /\ Len(parsed[1]) = 1
    /\ parsed[Len(parsed)][1] = LabelAlphabet[Len(LabelAlphabet)]

-----------------------------------------------------------------------------
(* Label commands: a diff with one hunk more than there are single-         *)
(* character labels, so that the last hunk has a two-character label whose  *)
(* first character is the label of the first hunk.                          *)

\* The most EventLabelTimeout events posted and not yet handled.
MaxTimeouts == 1

KeyFrags == [n \in 1..(Len(availableLabels) + 1) |-> SmallFrag(FileA, n)]

\* The environment of an event that loads nothing: its writes succeed or fail.
QuietEnvs == { Env(Diff(<<>>), Nil, Nil, ok) : ok \in BOOLEAN }

InitKeys ==
    /\ s = Started({}, 80, 24, FALSE, Env(Diff(KeyFrags), Nil, Nil, TRUE))
    /\ quit = FALSE
    /\ timeouts = 0
    /\ ev = LoopEv("start", 0, 0)
    /\ parsed = <<>>
    /\ watch = IdleWatch
    /\ recon = NoFiles

NextKeys ==
    \/ KeyEvent({ Rune(r) : r \in {"y", "Y", "p", "c", "A", "i", "l", "?"} }
                \cup { KeyEv("Escape", ""), KeyEv("Up", "") },
                QuietEnvs)
    \/ TimerFire(MaxTimeouts)
    \/ TimeoutEvent(QuietEnvs)

SpecKeys == InitKeys /\ [][NextKeys]_vars

\* The keys that take a hunk label and yank.
LabelCmds == {"y", "Y", "p", "c"}

\* What a label command copies of a hunk.
Copied(cmd, hunk) ==
    CASE cmd = "y" -> AddedLines(hunk)
      [] cmd = "Y" -> RemovedLines(hunk)
      [] cmd = "p" -> AsPatch(hunk)
      [] cmd = "c" -> ResultLines(hunk)

\* The event that led to state after ran cmd on the hunk at position h of
\* state st, and on no other hunk: the hunk's text for cmd went to the
\* clipboard unless it is empty.
Executed(st, cmd, h, after) ==
    \E ok \in BOOLEAN :
        after.Out = <<[op |-> "handleYankHunk", cmd |-> cmd, hunk |-> h - 1]>>
                    \o (IF Len(Copied(cmd, st.Hunks[h])) = 0 THEN <<>>
                        ELSE <<[op |-> "clipboard", text |-> Copied(cmd, st.Hunks[h]),
                                ok |-> ok]>>)

HasLabel(st, label) == \E h \in DOMAIN st.Hunks : st.Hunks[h].Label = label

HasLongerLabel(st, label) ==
    \E h \in DOMAIN st.Hunks :
        /\ Len(st.Hunks[h].Label) > Len(label)
        /\ SubSeq(st.Hunks[h].Label, 1, Len(label)) = label

NothingPending(st) == st.PendingKey = "" /\ st.PendingLabel = EmptyText

\* C1: with a label command pending and no label typed yet, the key of a
\* character that is the whole label of a hunk and a strict prefix of no
\* label runs the command on that hunk at once and leaves nothing pending.
C1_SingleLabelImmediate ==
    [][\A h \in DOMAIN s.Hunks :
         (/\ ev'.kind = "key" /\ ev'.Key = "Rune"
          /\ s.PendingKey \in LabelCmds /\ s.PendingLabel = EmptyText
          /\ s.Hunks[h].Label = <<ev'.Rune>>
          /\ ~HasLongerLabel(s, <<ev'.Rune>>))
         => /\ Executed(s, s.PendingKey, h, s')
            /\ NothingPending(s')]_vars

\* C1 witness: Y then l has copied the removed line of the second hunk,
\* whose label l starts no other label.
C1_Witness ==
    /\ ev = Rune("l")
    /\ Len(s.Out) = 2
    /\ s.Out[1] = [op |-> "handleYankHunk", cmd |-> "Y", hunk |-> 1]
    /\ s.Hunks[2].Label = <<"l">>
    /\ NothingPending(s)

\* C2: with a label command pending and no label typed yet, the key of a
\* character X that is a label and starts a two-character label runs
\* nothing and leaves the command pending with label X; the key of Y after
\* that, when XY is a label, runs the command on the hunk labelled XY, not
\* on the hunk labelled X, and leaves nothing pending.
C2_TwoCharLabel ==
    [][/\ (/\ ev'.kind = "key" /\ ev'.Key = "Rune"
           /\ s.PendingKey \in LabelCmds /\ s.PendingLabel = EmptyText
           /\ HasLabel(s, <<ev'.Rune>>)
           /\ HasLongerLabel(s, <<ev'.Rune>>))
          => /\ s'.Out = <<>>
             /\ s'.PendingKey = s.PendingKey
             /\ s'.PendingLabel = <<ev'.Rune>>
             /\ s'.Hunks = s.Hunks
       /\ (/\ ev'.kind = "key" /\ ev'.Key = "Rune"
           /\ s.PendingKey \in LabelCmds /\ Len(s.PendingLabel) = 1
           /\ HasLabel(s, s.PendingLabel)
           /\ HasLabel(s, Append(s.PendingLabel, ev'.Rune)))
          => /\ \E h \in DOMAIN s.Hunks :
                   /\ s.Hunks[h].Label = Append(s.PendingLabel, ev'.Rune)
                   /\ Executed(s, s.PendingKey, h, s')
             /\ NothingPending(s')]_vars

\* C2 witness: y, i, i has copied the added line of the last hunk, whose
\* label is ii, while i is the label of the first hunk.
C2_Witness ==
    /\ ev = Rune("i")
    /\ Len(s.Out) = 2
    /\ s.Out[1].op = "handleYankHunk" /\ s.Out[1].cmd = "y"
    /\ s.Hunks[s.Out[1].hunk + 1].Label = <<"i", "i">>
    /\ s.Hunks[1].Label = <<"i">>
    /\ NothingPending(s)

\* The state of the viewer without the log of the last event.
Viewer(st) == [st EXCEPT !.Out = <<>>]

-----------------------------------------------------------------------------
(* A diff with so many hunks that two of them get the same label.           *)

\* The least number of hunks with a repeated label: the label of index
\* |A| + |A|^2 is the label of index |A|^2, |A| the number of labels of one
\* character.
BigHunks == Len(availableLabels) * (Len(availableLabels) + 1) + 1

\* The first hunk adds a line too long for a terminal 40 columns wide.
BigFrags ==
    [n \in 1..BigHunks |->
        IF n = 1
        THEN Frag(FileA, EmptyText, 1, 1, <<Line("-", <<"o">>), Line("+", [k \in 1..40 |-> "w"])>>)
        ELSE SmallFrag(FileA, 4 * n)]

InitBig ==
    /\ s = Started({}, 40, 24, FALSE, Env(Diff(BigFrags), Nil, Nil, TRUE))
    /\ quit = FALSE
    /\ timeouts = 0
    /\ ev = LoopEv("start", 0, 0)
    /\ parsed = <<>>
    /\ watch = IdleWatch
    /\ recon = NoFiles

NextBig == KeyEvent({ Rune("d"), Rune("g") }, {NoEnv})

SpecBig == InitBig /\ [][NextBig]_vars

\* C6 (as claimed): every hunk with StartLine >= 0 has StartLine below the
\* number of display lines, and the display line at StartLine is a
\* hunk-header row with the label of the hunk.
C6_StartLineIsHeader ==
    \A h \in DOMAIN s.Hunks :
        s.Hunks[h].StartLine >= 0
        => /\ s.Hunks[h].StartLine < Len(s.Lines)
           /\ s.Lines[s.Hunks[h].StartLine + 1].Style = StyleHunkHeader
           /\ s.Lines[s.Hunks[h].StartLine + 1].Label = s.Hunks[h].Label

-----------------------------------------------------------------------------
(* Scrolling: every kind of event of the loop, on the diff of the label     *)
(* commands, in a terminal nearly as tall as the diff is long.              *)

InitView ==
    /\ s = Started({}, 80, 110, FALSE, Env(Diff(KeyFrags), Nil, Nil, TRUE))
    /\ quit = FALSE
    /\ timeouts = 0
    /\ ev = LoopEv("start", 0, 0)
    /\ parsed = <<>>
    /\ watch = IdleWatch
    /\ recon = NoFiles

\* A reload finds the diff as it was, or without its last hunk, or git fails.
ViewReloads ==
    { Env(d, Nil, Nil, TRUE) :
        d \in { Diff(KeyFrags), Diff(SubSeq(KeyFrags, 1, Len(KeyFrags) - 1)),
                DiffError("run") } }

NextView ==
    \/ KeyEvent({ Rune("y"), Rune("i"), Rune("j"), Rune("G") }, {NoEnv})
    \/ MouseEvent({ MouseEv("WheelUp", 0, 0, FALSE), MouseEv("WheelDown", 0, 0, FALSE) },
                  {NoEnv})
    \/ ResizeEvent({ <<80, 110>>, <<80, 114>> }, {NoEnv})
    \/ ReloadEvent(ViewReloads)
    \/ TimerFire(MaxTimeouts)
    \/ TimeoutEvent({NoEnv})

SpecView == InitView /\ [][NextView]_vars

\* C7: the scroll position is at least 0 and at most
\* max(0, |lines| - (height - 1)), in the state every handled event leaves.
C7_ScrollInRange ==
    /\ 0 <= s.Scroll
    /\ s.Scroll <= Max2(0, Len(s.Lines) - (s.Height - 1))

\* C7 witness: a resize has left the scroll position at its upper bound,
\* below the top of the diff.
C7_Witness ==
    /\ ev.kind = "resize"
    /\ s.Scroll > 0
    /\ s.Scroll = Len(s.Lines) - (s.Height - 1)

-----------------------------------------------------------------------------
(* Reloads: diffs of two files, reloaded by the watcher, after the editor   *)
(* and after a change of the context-line count.                            *)

\* The most context lines asked of git.
MaxContext == 4

FileB == <<"b">>

ReloadBase ==
    <<SmallFrag(FileA, 1), SmallFrag(FileB, 1), SmallFrag(FileB, 5), SmallFrag(FileB, 9)>>

\* What git answers to a reload: ReloadBase; ReloadBase with one more hunk
\* in the first file; with the hunk of the first file at another line; with
\* one hunk in either file; or it fails; or its output does not parse.
ReloadEnvs ==
    { Env(d, Nil, Nil, TRUE) :
        d \in { Diff(ReloadBase),
                Diff(<<SmallFrag(FileA, 1), SmallFrag(FileA, 5)>> \o Tail(ReloadBase)),
                Diff(<<SmallFrag(FileA, 2)>> \o Tail(ReloadBase)),
                Diff(SubSeq(ReloadBase, 1, 2)),
                DiffError("run"), DiffError("parse") } }

InitReload ==
    /\ s = Started({}, 40, 8, FALSE, Env(Diff(ReloadBase), Nil, Nil, TRUE))
    /\ quit = FALSE
    /\ timeouts = 0
    /\ ev = LoopEv("start", 0, 0)
    /\ parsed = <<>>
    /\ watch = IdleWatch
    /\ recon = NoFiles

NextReload ==
    \/ /\ KeyEvent({ Rune("j"), Rune("F"), Rune("o"), Rune("+"), KeyEv("Tab", "") },
                   ReloadEnvs)
       /\ s'.ContextLines <= MaxContext
    \/ ReloadEvent(ReloadEnvs)

SpecReload == InitReload /\ [][NextReload]_vars

\* The rows of the file header of a file.
HeaderRows(st, file) ==
    { i \in DOMAIN st.Lines :
        st.Lines[i].Style = StyleFileHeader /\ st.Lines[i].Text = file }

\* The hunks of new whose file, old start and new start are those of no
\* hunk of old.
NewByFingerprint(old, new) ==
    { h \in DOMAIN new :
        \A g \in DOMAIN old : \/ new[h].File # old[g].File
                              \/ new[h].OldStart # old[g].OldStart
                              \/ new[h].NewStart # old[g].NewStart }

ScrollBound(st) == Max2(0, Len(st.Lines) - (st.Height - 1))

\* C8 (as claimed): after a reload that went through, if the file that was
\* current before it has a hunk in the new parse, the scroll position is
\* the row of a file header of that file.
C8_ScrollOnHeader ==
    [][\A k \in DOMAIN s'.Out :
         (/\ s'.Out[k].op = "reloadDiff" /\ ~s'.Out[k].err
          /\ \E h \in DOMAIN s'.Hunks : s'.Hunks[h].File = s'.Out[k].prevFile)
         => \E i \in HeaderRows(s', s'.Out[k].prevFile) : s'.Scroll = i - 1]_vars

\* C8 (amended): after a reload that went through, with follow mode off or
\* no hunk of a new fingerprint, if the file that was current before it has
\* a file-header row in the new display lines, the scroll position is the
\* first such row, or the greatest scroll position if that is less.
C8_ScrollOnHeaderClamped ==
    [][\A k \in DOMAIN s'.Out :
         (/\ s'.Out[k].op = "reloadDiff" /\ ~s'.Out[k].err
          /\ s'.Out[k].prevFile # EmptyText
          /\ HeaderRows(s', s'.Out[k].prevFile) # {}
          /\ (~s.FollowMode \/ NewByFingerprint(s.Hunks, s'.Hunks) = {}))
         => s'.Scroll = Min2(SetMin(HeaderRows(s', s'.Out[k].prevFile)) - 1,
                             ScrollBound(s'))]_vars

\* C8 witness: a reload by the watcher, with follow mode off, has put the
\* scroll position on the header of the second file, which was the current
\* file before.
C8_Witness ==
    /\ ev.kind = "reload"
    /\ ~s.FollowMode
    /\ \E k \in DOMAIN s.Out :
          /\ s.Out[k].op = "reloadDiff" /\ ~s.Out[k].err
          /\ s.Out[k].prevFile = FileB
    /\ s.Scroll > 0
    /\ s.Lines[s.Scroll + 1].Style = StyleFileHeader
    /\ s.Lines[s.Scroll + 1].Text = FileB

\* C9 (as claimed): after a reload that went through with follow mode on
\* and found a hunk of a new fingerprint, the flash message is the one
\* with "new hunks".
C9_FlashNewHunks ==
    [][\A k \in DOMAIN s'.Out :
         (/\ s'.Out[k].op = "reloadDiff" /\ ~s'.Out[k].err
          /\ s.FollowMode
          /\ NewByFingerprint(s.Hunks, s'.Hunks) # {})
         => s'.FlashMsg.fmt = FmtNewHunks]_vars

\* C9 (amended): after a reload that went through with follow mode on, if
\* the first hunk of a new fingerprint has a row in the display lines, the
\* flash message is "<n> new hunks" with the file of that hunk when the new
\* hunk list is n > 0 hunks longer than the old one, and "Changes in" with
\* that file otherwise.
C9_FlashNewOrChanged ==
    [][\A k \in DOMAIN s'.Out :
         (/\ s'.Out[k].op = "reloadDiff" /\ ~s'.Out[k].err
          /\ s.FollowMode
          /\ NewByFingerprint(s.Hunks, s'.Hunks) # {}
          /\ s'.Hunks[SetMin(NewByFingerprint(s.Hunks, s'.Hunks))].StartLine >= 0)
         => LET first == s'.Hunks[SetMin(NewByFingerprint(s.Hunks, s'.Hunks))]
                n == Len(s'.Hunks) - Len(s.Hunks)
            IN  /\ n > 0 => s'.FlashMsg = [fmt |-> FmtNewHunks,
                                           args |-> <<n, first.File>>]
                /\ n <= 0 => s'.FlashMsg = [fmt |-> "Changes in %s",
                                            args |-> <<first.File>>]]_vars

\* C9 witness: a reload by the watcher, with follow mode on, has found one
\* hunk more than before and flashed "1 new hunks" with its file.
C9_Witness ==
    /\ ev.kind = "reload"
    /\ s.FollowMode
    /\ \E k \in DOMAIN s.Out : s.Out[k].op = "reloadDiff" /\ ~s.Out[k].err
    /\ s.FlashMsg = [fmt |-> FmtNewHunks, args |-> <<1, FileA>>]

\* C10 (as claimed): an event whose reload fails leaves the hunks, the
\* display lines, the tree, the scroll position, the context-line count and
\* the flash message as they were.
C10_FailedReloadKeepsState ==
    [][\A k \in DOMAIN s'.Out :
         (s'.Out[k].op \in {"reloadDiff", "loadDiff"} /\ s'.Out[k].err)
         => /\ s'.Hunks = s.Hunks
            /\ s'.Lines = s.Lines
            /\ s'.TreeNodes = s.TreeNodes
            /\ s'.TreeFiles = s.TreeFiles
            /\ s'.Scroll = s.Scroll
            /\ s'.ContextLines = s.ContextLines
            /\ s'.FlashMsg = s.FlashMsg
            /\ s'.FlashExpiry = s.FlashExpiry]_vars

-----------------------------------------------------------------------------
(* Staging a hunk: A then a label, on the diff of the label commands         *)

\* The call of the staging tool for the hunk at position h of st, with the
\* result ok.
StageCall(st, h, ok) ==
    [op |-> "git",
     args |-> IF st.Hunks[h].Staged THEN <<"apply", "--cached", "-R">>
              ELSE <<"apply", "--cached">>,
     stdin |-> AsFullPatch(st.Hunks[h]),
     ok |-> ok]

\* What staging the hunk at position h of st leaves in after when the tool
\* answers ok: one call of the tool, the flag of that hunk flipped on
\* success and kept on failure, every other hunk as it was, and the flash
\* of the outcome for two seconds.
StagedOutcome(st, h, ok, after) ==
    /\ after.Out = << [op |-> "handleStageHunk", cmd |-> "A", hunk |-> h - 1],
                      StageCall(st, h, ok) >>
    /\ after.Hunks[h].Staged = (IF ok THEN ~st.Hunks[h].Staged ELSE st.Hunks[h].Staged)
    /\ after.Hunks = [st.Hunks EXCEPT ![h].Staged = after.Hunks[h].Staged]
    /\ after.FlashMsg =
         (IF ok
          THEN Flash(IF st.Hunks[h].Staged THEN "Unstaged hunk %s" ELSE "Staged hunk %s",
                     <<st.Hunks[h].Label>>)
          ELSE Flash("%s failed for hunk %s: %v",
                     <<IF st.Hunks[h].Staged THEN "Unstage" ELSE "Stage",
                       st.Hunks[h].Label, "err">>))
    /\ after.FlashExpiry = 2

\* C11: with A pending, the key that completes the label of a hunk calls
\* the staging tool once with apply --cached, with -R exactly when the hunk
\* is staged, and the hunk's full patch on stdin; the hunk's staged flag is
\* flipped exactly when the tool succeeds, with the flash "Staged hunk
\* <label>" or "Unstaged hunk <label>", and on failure the flag is kept and
\* the flash is "Stage failed ..." or "Unstage failed ..." for that hunk.
\* No key and no label timeout calls the staging tool in another way.
C11_StageHunk ==
    [][/\ \A h \in DOMAIN s.Hunks :
            (/\ ev'.kind = "key" /\ ev'.Key = "Rune"
             /\ s.PendingKey = "A"
             /\ s.Hunks[h].Label = Append(s.PendingLabel, ev'.Rune)
             /\ ~HasLongerLabel(s, s.Hunks[h].Label))
            => /\ \E ok \in BOOLEAN : StagedOutcome(s, h, ok, s')
               /\ NothingPending(s')
       /\ (/\ ev'.kind \in {"key", "timeout"}
           /\ \E i \in DOMAIN s'.Out : s'.Out[i].op \in {"git", "handleStageHunk"})
            => \E h \in DOMAIN s.Hunks, ok \in BOOLEAN : StagedOutcome(s, h, ok, s')]_vars

\* C11 witness: A then l on the second hunk, staged by an earlier A l, with
\* the tool failing: the call has -R, the hunk is still staged and the
\* flash says that unstaging failed.
C11_Witness ==
    /\ ev = Rune("l")
    /\ Len(s.Out) = 2
    /\ s.Out[2].op = "git"
    /\ s.Out[2].args = <<"apply", "--cached", "-R">>
    /\ ~s.Out[2].ok
    /\ s.Hunks[2].Staged
    /\ s.FlashMsg.args = <<"Unstage", <<"l">>, "err">>

-----------------------------------------------------------------------------
(* Yanking a patch: a diff of two hunks, the first with any lines           *)

\* The most lines of the first hunk.
MaxPatchLines == 3

\* The lines a hunk can have: any op, with an empty or a two-character
\* content.
PatchLineKinds ==
    { Line(op, content) : op \in {"+", "-", " "}, content \in {EmptyText, <<"x", " ">>} }

\* The hunks of up to MaxPatchLines lines with at least one change.
PatchLineSeqs ==
    { ls \in UNION { [1..n -> PatchLineKinds] : n \in 1..MaxPatchLines } :
        \E i \in DOMAIN ls : ls[i].Op # " " }

InitPatch ==
    /\ \E ls \in PatchLineSeqs :
          s = Started({}, 80, 24, FALSE,
                      Env(Diff(<<Frag(FileA, <<"f">>, 1, 1, ls), SmallFrag(FileA, 9)>>),
                          Nil, Nil, TRUE))
    /\ quit = FALSE
    /\ timeouts = 0
    /\ ev = LoopEv("start", 0, 0)
    /\ parsed = <<>>
    /\ watch = IdleWatch
    /\ recon = NoFiles

NextPatch == KeyEvent({ Rune(r) : r \in {"p", "i", "l"} }, QuietEnvs)

SpecPatch == InitPatch /\ [][NextPatch]_vars

\* The lines of a patch after its header: for each line in order its op
\* character, its content and a newline.
RECURSIVE PatchBody(_)
PatchBody(lines) ==
    IF lines = <<>> THEN <<>>
    ELSE <<Head(lines).Op>> \o Head(lines).Content \o <<"\n">> \o PatchBody(Tail(lines))

\* C12: with p pending, the key of a hunk's label writes to the clipboard
\* exactly the hunk's header, a newline, and for each line of the hunk in
\* order its op character, its content and a newline; when the write
\* succeeds the flash is "Yanked patch from hunk <label>".
C12_PatchYank ==
    [][\A h \in DOMAIN s.Hunks :
         (/\ ev'.kind = "key" /\ ev'.Key = "Rune"
          /\ s.PendingKey = "p" /\ s.PendingLabel = EmptyText
          /\ s.Hunks[h].Label = <<ev'.Rune>>)
         => \E ok \in BOOLEAN :
              /\ s'.Out = << [op |-> "handleYankHunk", cmd |-> "p", hunk |-> h - 1],
                             [op |-> "clipboard",
                              text |-> <<s.Hunks[h].Header, "\n">>
                                           \o PatchBody(s.Hunks[h].Lines),
                              ok |-> ok] >>
              /\ ok => s'.FlashMsg = Flash("Yanked patch from hunk %s",
                                           <<s.Hunks[h].Label>>)]_vars

\* C12 witness: p then i has copied the patch of a first hunk of three
\* lines, a context line with empty content among them, and the write
\* succeeded.
C12_Witness ==
    /\ ev = Rune("i")
    /\ Len(s.Out) = 2
    /\ s.Out[1] = [op |-> "handleYankHunk", cmd |-> "p", hunk |-> 0]
    /\ s.Out[2].ok
    /\ Len(s.Hunks[1].Lines) = MaxPatchLines
    /\ Line(" ", EmptyText) \in { s.Hunks[1].Lines[i] : i \in DOMAIN s.Hunks[1].Lines }
    /\ s.FlashMsg.fmt = "Yanked patch from hunk %s"

-----------------------------------------------------------------------------
(* Pipe mode: the diff of two hunks read from stdin                          *)

PipeFrags == <<SmallFrag(FileA, 1), SmallFrag(FileA, 5)>>

InitPipe ==
    /\ s = Started({}, 80, 6, TRUE, Env(Diff(PipeFrags), Nil, Nil, TRUE))
    /\ quit = FALSE
    /\ timeouts = 0
    /\ ev = LoopEv("start", 0, 0)
    /\ parsed = <<>>
    /\ watch = IdleWatch
    /\ recon = NoFiles

NextPipe ==
    KeyEvent({ Rune(r) : r \in {"W", "F", "+", "=", "-", "f", "o", "A", "i", "j"} },
             QuietEnvs)

SpecPipe == InitPipe /\ [][NextPipe]_vars

\* No key is pending and neither the help overlay, the search prompt nor
\* the file tree takes the next key.
NormalMode(st) ==
    /\ ~st.ShowHelp /\ ~st.SearchMode /\ ~st.TreeFocused
    /\ st.PendingKey = ""

\* C13: in pipe mode no key event runs git, and the keys W, F, +, = and -
\* leave the viewer state as it was.
C13_PipeModeQuiet ==
    [][(ev'.kind = "key" /\ s.PipeMode)
         => /\ \A i \in DOMAIN s'.Out : s'.Out[i].op # "git"
            /\ (NormalMode(s) /\ ev' \in { Rune(r) : r \in {"W", "F", "+", "=", "-"} })
                 => Viewer(s') = Viewer(s)]_vars

-----------------------------------------------------------------------------
(* Search: a diff of three hunks in a terminal of six rows, so that the     *)
(* last rows lie below the greatest scroll position                         *)

\* The most characters of a search query.
MaxQuery == 2

SearchFrags ==
    <<SmallFrag(FileA, 1), SmallFrag(FileA, 5),
      Frag(FileB, EmptyText, 1, 1, <<Line("+", <<"n">>), Line("+", <<"x">>)>>)>>

InitSearch ==
    /\ s = Started({}, 80, 6, FALSE, Env(Diff(SearchFrags), Nil, Nil, TRUE))
    /\ quit = FALSE
    /\ timeouts = 0
    /\ ev = LoopEv("start", 0, 0)
    /\ parsed = <<>>
    /\ watch = IdleWatch
    /\ recon = NoFiles

NextSearch ==
    /\ KeyEvent({ Rune(r) : r \in {"/", "n", "N", "x", "s", "j"} }
                \cup { KeyEv("Enter", ""), KeyEv("Escape", ""), KeyEv("Backspace", "") },
                {NoEnv})
    /\ Len(s'.SearchQuery) <= MaxQuery

SpecSearch == InitSearch /\ [][NextSearch]_vars

\* The rows of st that hold the query, whatever the case of the letters,
\* in their text or in one of their halves, by Go index.
MatchingRows(st, query) ==
    { i \in 0..(Len(st.Lines) - 1) :
        \E text \in { st.Lines[i + 1].Text, st.Lines[i + 1].Left.Text,
                      st.Lines[i + 1].Right.Text } :
            \E k \in 1..Len(text) :
                /\ k + Len(query) - 1 <= Len(text)
                /\ \A j \in 1..Len(query) :
                      ToLower(<<text[k + j - 1]>>) = ToLower(<<query[j]>>) }

\* Enter in the search prompt, with a query that some row matches, has
\* left the prompt with the matches kept and the first one current.
EnterKeepsMatches(st, after) ==
    /\ ~after.SearchMode
    /\ after.SearchQuery = st.SearchQuery
    /\ Len(after.SearchMatches) = Cardinality(MatchingRows(st, st.SearchQuery))
    /\ \A i \in DOMAIN after.SearchMatches :
          /\ after.SearchMatches[i] \in MatchingRows(st, st.SearchQuery)
          /\ i > 1 => after.SearchMatches[i - 1] < after.SearchMatches[i]
    /\ after.SearchIdx = 0

\* C14 as claimed: Enter in the search prompt, with a typed query that some
\* row matches, leaves the prompt, keeps the matches, makes the first one
\* current and sets scroll to the index of the first matching row.
C14_EnterJumpsToFirst ==
    [][(/\ ev' = KeyEv("Enter", "")
        /\ s.SearchMode /\ ~s.ShowHelp
        /\ s.SearchQuery # EmptyText
        /\ MatchingRows(s, s.SearchQuery) # {})
         => /\ EnterKeepsMatches(s, s')
            /\ s'.Scroll = SetMin(MatchingRows(s, s.SearchQuery))]_vars

\* C14 amended: ... and sets scroll to the index of the first matching row,
\* or to the greatest scroll position when that is smaller.
C14_EnterJumpsToFirstClamped ==
    [][(/\ ev' = KeyEv("Enter", "")
        /\ s.SearchMode /\ ~s.ShowHelp
        /\ s.SearchQuery # EmptyText
        /\ MatchingRows(s, s.SearchQuery) # {})
         => /\ EnterKeepsMatches(s, s')
            /\ s'.Scroll = Min2(SetMin(MatchingRows(s, s.SearchQuery)),
                                ScrollBound(s'))]_vars

\* C14 witness: Enter after a query of an upper-case letter that matches
\* three rows, the first of them above the greatest scroll position.
C14_Witness ==
    /\ ev = KeyEv("Enter", "")
    /\ ~s.SearchMode
    /\ s.SearchQuery = <<"N">>
    /\ Len(s.SearchMatches) = 3
    /\ s.SearchIdx = 0
    /\ s.Scroll = s.SearchMatches[1]
    /\ s.Scroll > 0

\* C15: with matches and nothing pending, the key n makes the match after
\* the current one current, the first one after the last; the key N makes
\* the match before the current one current, the last one when the first
\* or none (-1) is current; with no match next_match and prev_match change
\* nothing.
C15_MatchWraps ==
    [][/\ (/\ ev' = Rune("n") /\ NormalMode(s)
           /\ Len(s.SearchMatches) > 0)
          => /\ s'.SearchIdx = (IF s.SearchIdx = Len(s.SearchMatches) - 1 THEN 0
                                ELSE s.SearchIdx + 1)
             /\ s'.SearchMatches = s.SearchMatches
       /\ (/\ ev' = Rune("N") /\ NormalMode(s)
           /\ Len(s.SearchMatches) > 0)
          => /\ s'.SearchIdx = (IF s.SearchIdx \in {0, -1} THEN Len(s.SearchMatches) - 1
                                ELSE s.SearchIdx - 1)
             /\ s'.SearchMatches = s.SearchMatches
       /\ (ev' = Rune("N") /\ NormalMode(s) /\ Len(s.SearchMatches) = 0)
          => Viewer(s') = Viewer(s)
       /\ Len(s.SearchMatches) = 0
          => JumpToNextMatch(s) = s /\ JumpToPrevMatch(s) = s]_vars

\* C15 witness: the key n has gone from the last of three matches to the
\* first.
C15_Witness ==
    /\ ev = Rune("n")
    /\ Len(s.SearchMatches) = 3
    /\ s.SearchIdx = 0
    /\ s.Scroll = Min2(s.SearchMatches[1], ScrollBound(s))
    /\ s.Scroll < s.SearchMatches[2]
    /\ s.FlashMsg = NoFlash

-----------------------------------------------------------------------------
(* Display rows: a diff of one hunk with any lines, short and long, in      *)
(* terminals of several widths, inline and side by side, wrapped or not     *)

\* The most lines of the hunk.
MaxRowLines == 3

\* The content of line i of the hunk: one letter of its own, once or eight
\* times.
RowContent(i, long) ==
    [k \in 1..(IF long THEN 8 ELSE 1) |-> Lower[i]]

\* The hunks of up to MaxRowLines lines, each with any op, short or long.
RowLineSeqs ==
    UNION { { [i \in 1..n |-> Line(ops[i], RowContent(i, long[i]))] :
                ops \in [1..n -> {"+", "-", " "}], long \in [1..n -> BOOLEAN] } :
            n \in 1..MaxRowLines }

\* The terminal sizes: the text column of inline mode is 3, 4 and 71
\* characters wide with line numbers, 8, 9 and 76 without.
RowSizes == { <<12, 24>>, <<13, 24>>, <<80, 24>> }

InitRows ==
    /\ \E ls \in RowLineSeqs :
          s = Started({}, 12, 24, FALSE,
                      Env(Diff(<<Frag(FileA, EmptyText, 3, 5, ls)>>), Nil, Nil, TRUE))
    /\ quit = FALSE
    /\ timeouts = 0
    /\ ev = LoopEv("start", 0, 0)
    /\ parsed = <<>>
    /\ watch = IdleWatch
    /\ recon = NoFiles

NextRows ==
    \/ KeyEvent({ Rune(r) : r \in {"n", "w", "s"} }, {NoEnv})
    \/ ResizeEvent(RowSizes, {NoEnv})

SpecRows == InitRows /\ [][NextRows]_vars

\* The rows of st that are not continuations, in order: the k-th of them
\* starts the k-th group of rows.
GroupStart(st, k) ==
    CHOOSE i \in DOMAIN st.Lines :
        /\ ~st.Lines[i].Continuation
        /\ Cardinality({ j \in 1..(i - 1) : ~st.Lines[j].Continuation }) = k - 1

NumGroups(st) == Cardinality({ i \in DOMAIN st.Lines : ~st.Lines[i].Continuation })

GroupEnd(st, k) ==
    IF k = NumGroups(st) THEN Len(st.Lines) ELSE GroupStart(st, k + 1) - 1

RECURSIVE ConcatText(_, _, _)
ConcatText(lines, lo, hi) ==
    IF lo > hi THEN <<>> ELSE lines[lo].Text \o ConcatText(lines, lo + 1, hi)

\* The text width of inline mode as the layout of st gives it.
InlineWidth(st) ==
    Max2(1, st.DiffWidth - st.LabelGutter - (IF st.LineNumbers THEN 5 ELSE 0))

\* Rows lo..hi of st are what wrapping at width tw makes of the row orig.
WrappedAs(st, lo, hi, orig, tw) ==
    IF orig.Style \in {StyleAdded, StyleRemoved, StyleContext} /\ Len(orig.Text) > tw
    THEN /\ hi > lo
         /\ ConcatText(st.Lines, lo, hi) = orig.Text
         /\ \A i \in lo..hi :
               /\ st.Lines[i].Style = orig.Style
               /\ st.Lines[i].HunkIdx = orig.HunkIdx
               /\ st.Lines[i].Label = EmptyText
               /\ i < hi => Len(st.Lines[i].Text) = tw
               /\ Len(st.Lines[i].Text) \in 1..tw
               /\ st.Lines[i].Continuation = (i > lo)
               /\ IF i = lo
                  THEN /\ st.Lines[i].OldLineNo = orig.OldLineNo
                       /\ st.Lines[i].NewLineNo = orig.NewLineNo
                  ELSE /\ st.Lines[i].OldLineNo = 0
                       /\ st.Lines[i].NewLineNo = 0
    ELSE hi = lo /\ st.Lines[lo] = orig

C17_LineNumbers ==
    \A i \in DOMAIN s.Lines :
        /\ s.Lines[i].Style = StyleAdded
             => s.Lines[i].OldLineNo = 0 /\ s.Lines[i].NewLineNo > 0
        /\ s.Lines[i].Style = StyleRemoved
             => s.Lines[i].NewLineNo = 0 /\ s.Lines[i].OldLineNo > 0

\* C17 amended: in inline mode every added row that is not a continuation
\* has old_line_no = 0 and new_line_no > 0, every removed row that is not a
\* continuation has new_line_no = 0 and old_line_no > 0, and a continuation
\* has neither number.  In side-by-side mode no row has old_line_no or
\* new_line_no: on a row that is not a continuation a removed left half and
\* an added right half have line_no > 0, and on a continuation the halves
\* have line_no = 0.
C17_LineNumbersOfFirstRows ==
    ~s.FullFile =>
      \A i \in DOMAIN s.Lines :
        LET row == s.Lines[i]
        IN  IF ~s.SideBySide
            THEN /\ (row.Style = StyleAdded /\ ~row.Continuation)
                      => row.OldLineNo = 0 /\ row.NewLineNo > 0
                 /\ (row.Style = StyleRemoved /\ ~row.Continuation)
                      => row.NewLineNo = 0 /\ row.OldLineNo > 0
                 /\ row.Continuation => row.OldLineNo = 0 /\ row.NewLineNo = 0
            ELSE /\ row.OldLineNo = 0 /\ row.NewLineNo = 0
                 /\ (row.Left.Style = StyleRemoved /\ ~row.Continuation)
                      => row.Left.LineNo > 0
                 /\ (row.Right.Style = StyleAdded /\ ~row.Continuation)
                      => row.Right.LineNo > 0
                 /\ row.Continuation => row.Left.LineNo = 0 /\ row.Right.LineNo = 0

\* C17 witness: an inline display, after a key, in which the second line of
\* the hunk is an added line shown on a row with its new line number and a
\* continuation row, after a removed row with its old line number.
C17_Witness ==
    /\ ev.kind = "key"
    /\ ~s.SideBySide /\ s.Wrap
    /\ \E i \in DOMAIN s.Lines :
          /\ i + 2 <= Len(s.Lines)
          /\ s.Lines[i].Style = StyleRemoved
          /\ s.Lines[i].OldLineNo = s.Hunks[1].OldStart
          /\ s.Lines[i + 1].Style = StyleAdded /\ ~s.Lines[i + 1].Continuation
          /\ s.Lines[i + 1].NewLineNo = s.Hunks[1].NewStart
          /\ s.Lines[i + 2].Style = StyleAdded /\ s.Lines[i + 2].Continuation

\* The first position of the run of lines with this op that ends at
\* position j, and the last position of the run that starts at j.
RunStart(ls, j, op) ==
    SetMin({ a \in 1..j : \A i \in a..j : ls[i].Op = op })

RunStop(ls, j, op) ==
    SetMax({ b \in j..Len(ls) : \A i \in j..b : ls[i].Op = op })

\* The added line that shares the row of the removed line at position j:
\* the one as far into the adds after the run of removes as j is into the
\* removes; 0 when there are not that many adds.
AddedPartner(ls, j) ==
    LET last == RunStop(ls, j, "-")
        p == last + (j - RunStart(ls, j, "-") + 1)
    IN  IF p <= Len(ls) /\ \A i \in (last + 1)..p : ls[i].Op = "+" THEN p ELSE 0

\* The removed line that shares the row of the added line at position j;
\* 0 when the removes before the run of adds are not that many.
RemovedPartner(ls, j) ==
    LET first == RunStart(ls, j, "+")
        nRem == IF first = 1 \/ ls[first - 1].Op # "-" THEN 0
                ELSE first - RunStart(ls, first - 1, "-")
        k == j - first + 1
    IN  IF k <= nRem THEN first - nRem + k - 1 ELSE 0

\* The halves of the hunk's line at position j, with the line number the
\* line has in the old or in the new file.
OldHalf(h, j) ==
    [Text |-> <<h.Lines[j].Op>> \o h.Lines[j].Content,
     Style |-> IF h.Lines[j].Op = "-" THEN StyleRemoved ELSE StyleContext,
     LineNo |-> h.OldStart + Cardinality({ i \in 1..(j - 1) : h.Lines[i].Op # "+" })]

NewHalf(h, j) ==
    [Text |-> <<h.Lines[j].Op>> \o h.Lines[j].Content,
     Style |-> IF h.Lines[j].Op = "+" THEN StyleAdded ELSE StyleContext,
     LineNo |-> h.NewStart + Cardinality({ i \in 1..(j - 1) : h.Lines[i].Op # "-" })]

EmptyHalf == [Text |-> EmptyText, Style |-> StyleNormal, LineNo |-> 0]

\* The row of the hunk's line at position j in a side-by-side display.
PairRow(h, j) ==
    CASE h.Lines[j].Op = "-" ->
            [Left |-> OldHalf(h, j),
             Right |-> IF AddedPartner(h.Lines, j) # 0
                       THEN NewHalf(h, AddedPartner(h.Lines, j)) ELSE EmptyHalf]
      [] h.Lines[j].Op = "+" ->
            [Left |-> IF RemovedPartner(h.Lines, j) # 0
                      THEN OldHalf(h, RemovedPartner(h.Lines, j)) ELSE EmptyHalf,
             Right |-> NewHalf(h, j)]
      [] OTHER -> [Left |-> OldHalf(h, j), Right |-> NewHalf(h, j)]

\* The content rows of the display, as pairs of halves, in order.
PairsShown(st) ==
    LET rows == SelectSeq(st.Lines,
                          LAMBDA l : l.Style \in {StyleAdded, StyleRemoved, StyleContext})
    IN  [i \in DOMAIN rows |-> [Left |-> rows[i].Left, Right |-> rows[i].Right]]

\* C18: in side-by-side mode with no row wrapped, every line of the hunk is
\* on exactly one row: the k-th line of a run of removes on the left half
\* of the row whose right half is the k-th line of the adds that follow the
\* run, or empty when there are fewer adds; the k-th line of a run of adds
\* on the right half of the row whose left half is the k-th of the removes
\* before the run, or empty when there are fewer; a context line on both
\* halves of a row of its own; each half has the line number of its line,
\* the removes, the adds, and the lines on either side of a context line
\* are in the order of the hunk, and there are no other content rows.
C18_SideBySidePairs ==
    (s.SideBySide /\ ~s.FullFile /\ \A i \in DOMAIN s.Lines : ~s.Lines[i].Continuation)
      => LET h == s.Hunks[1]
             shown == PairsShown(s)
             RowOf(j) == { i \in DOMAIN shown : shown[i] = PairRow(h, j) }
         IN  /\ \A j \in DOMAIN h.Lines : Cardinality(RowOf(j)) = 1
             /\ \A i \in DOMAIN shown : \E j \in DOMAIN h.Lines : i \in RowOf(j)
             /\ \A j1, j2 \in DOMAIN h.Lines :
                   (/\ j1 < j2
                    /\ \/ h.Lines[j1].Op = h.Lines[j2].Op
                       \/ " " \in {h.Lines[j1].Op, h.Lines[j2].Op}
                       \/ \E m \in j1..j2 : h.Lines[m].Op = " ")
                     => \A i1 \in RowOf(j1), i2 \in RowOf(j2) : i1 < i2

\* C18 witness: after the key s, a hunk of two removed lines and one added
\* line is shown on two rows, the first with both halves and the second
\* with an empty right half.
C18_Witness ==
    /\ ev = Rune("s")
    /\ s.SideBySide
    /\ Len(s.Hunks[1].Lines) = 3
    /\ \E i \in DOMAIN s.Lines :
          /\ i < Len(s.Lines)
          /\ s.Lines[i].Left.Style = StyleRemoved
          /\ s.Lines[i].Right.Style = StyleAdded
          /\ s.Lines[i].Left.LineNo = s.Hunks[1].OldStart
          /\ s.Lines[i].Right.LineNo = s.Hunks[1].NewStart
          /\ s.Lines[i + 1].Left.Style = StyleRemoved
          /\ s.Lines[i + 1].Left.LineNo = s.Hunks[1].OldStart + 1
          /\ s.Lines[i + 1].Right = EmptyHalf
          /\ ~s.Lines[i + 1].Continuation

-----------------------------------------------------------------------------
(* The file tree: reloads that bring diffs of up to MaxTreeFiles files, in  *)
(* any order, out of a handful of paths                                     *)

\* The most files of one diff.
MaxTreeFiles == 3

\* The paths: a chain of three directories with two files, a file in the
\* middle of the chain, a second directory under the first, a directory
\* with an upper-case name, and a file at the top.
TreePaths ==
    { <<"a", "/", "b", "/", "c", "/", "f", ".", "g">>,
      <<"a", "/", "b", "/", "c", "/", "e">>,
      <<"a", "/", "b", "/", "g">>,
      <<"a", "/", "d", "/", "h">>,
      <<"B", "/", "k">>,
      <<"c">> }

\* The lists of up to MaxTreeFiles different paths, in any order.
TreePathLists ==
    { q \in UNION { [1..n -> TreePaths] : n \in 1..MaxTreeFiles } :
        \A i, j \in DOMAIN q : i # j => q[i] # q[j] }

\* The diff with one hunk for each path of a list.
TreeEnv(ps) == Env(Diff([i \in DOMAIN ps |-> SmallFrag(ps[i], 1)]), Nil, Nil, TRUE)

\* The diffs the watcher brings: the chain alone, and the chain with a file
\* in its middle and a file at the top.
TreeReloads ==
    { TreeEnv(<<CHOOSE p \in TreePaths : Len(p) = 9>>),
      TreeEnv(<<<<"c">>, <<"a", "/", "b", "/", "g">>,
                CHOOSE p \in TreePaths : Len(p) = 9>>) }

InitTree ==
    /\ \E ps \in TreePathLists : s = Started({}, 80, 24, FALSE, TreeEnv(ps))
    /\ quit = FALSE
    /\ timeouts = 0
    /\ ev = LoopEv("start", 0, 0)
    /\ parsed = <<>>
    /\ watch = IdleWatch
    /\ recon = NoFiles

NextTree ==
    \/ KeyEvent({ Rune("e"), Rune("j"), KeyEv("Tab", "") }, {NoEnv})
    \/ ReloadEvent(TreeReloads)

SpecTree == InitTree /\ [][NextTree]_vars

\* The directories of a list of files, each as the sequence of its
\* components from the top.
AllDirs(files) ==
    UNION { { SubSeq(SplitPath(files[i].Path), 1, k) :
                k \in 1..(Len(SplitPath(files[i].Path)) - 1) } :
            i \in DOMAIN files }

ChildDirs(files, d) ==
    { e \in AllDirs(files) : Len(e) = Len(d) + 1 /\ SubSeq(e, 1, Len(d)) = d }

FilesIn(files, d) ==
    { i \in DOMAIN files :
        SubSeq(SplitPath(files[i].Path), 1, Len(SplitPath(files[i].Path)) - 1) = d }

\* A directory that is merged with its one child directory.
Passable(files, d) ==
    Cardinality(ChildDirs(files, d)) = 1 /\ FilesIn(files, d) = {}

\* A directory that starts a chain, and so has a node: one at the top, or
\* one whose parent is not merged with it.
ChainHead(files, d) ==
    Len(d) = 1 \/ ~Passable(files, SubSeq(d, 1, Len(d) - 1))

\* The directory at the end of the chain that starts at d.
ChainEnd(files, d) ==
    CHOOSE e \in AllDirs(files) :
        /\ Len(e) >= Len(d) /\ SubSeq(e, 1, Len(d)) = d
        /\ \A k \in Len(d)..(Len(e) - 1) : Passable(files, SubSeq(e, 1, k))
        /\ ~Passable(files, e)

\* The number of nodes above an entry in directory d.
DepthIn(files, d) ==
    Cardinality({ k \in 1..Len(d) : ChainHead(files, SubSeq(d, 1, k)) })

\* The nodes the claim describes, each with the components that place it
\* in the tree.
TreeEntries(files) ==
    { [comps |-> ChainEnd(files, d),
       node |-> [Display |-> Join(SubSeq(ChainEnd(files, d), Len(d),
                                         Len(ChainEnd(files, d))), "/") \o <<"/">>,
                 Path |-> EmptyText, Depth |-> DepthIn(files, SubSeq(d, 1, Len(d) - 1)),
                 IsDir |-> TRUE, Added |-> 0, Removed |-> 0]] :
        d \in { x \in AllDirs(files) : ChainHead(files, x) } }
    \cup
    { [comps |-> SplitPath(files[i].Path),
       node |-> [Display |-> SplitPath(files[i].Path)[Len(SplitPath(files[i].Path))],
                 Path |-> files[i].Path,
                 Depth |-> DepthIn(files, SubSeq(SplitPath(files[i].Path), 1,
                                                Len(SplitPath(files[i].Path)) - 1)),
                 IsDir |-> FALSE, Added |-> files[i].Added,
                 Removed |-> files[i].Removed]] :
        i \in DOMAIN files }

\* Component k of an entry names a directory.
DirAt(x, k) == x.node.IsDir \/ k < Len(x.comps)

\* Entry x is listed before entry y: a directory before what is under it,
\* and where the two part ways a directory before a file, and otherwise
\* the lesser name first.
ListedBefore(x, y) ==
    LET D == { k \in 1..Min2(Len(x.comps), Len(y.comps)) :
                 x.comps[k] # y.comps[k] \/ DirAt(x, k) # DirAt(y, k) }
    IN  IF D = {} THEN Len(x.comps) < Len(y.comps)
        ELSE LET k == SetMin(D)
             IN  IF DirAt(x, k) # DirAt(y, k) THEN DirAt(x, k)
                 ELSE TextLess(x.comps[k], y.comps[k])

\* C19: the tree nodes of a list of files are one directory node for every
\* chain of directories that each have exactly one child directory and no
\* files, displayed as the chain joined by slashes with a slash at the end,
\* and one file node for every file, displayed by its base name; at each
\* level the directories come before the files, each in alphabetical
\* order, every directory node is followed by what is under it, and the
\* depth of an entry is the number of directory nodes above it.
C19_TreeNodes ==
    LET E == TreeEntries(s.TreeFiles)
    IN  /\ Len(s.TreeNodes) = Cardinality(E)
        /\ \A i \in DOMAIN s.TreeNodes :
              \E x \in E :
                 /\ x.node = s.TreeNodes[i]
                 /\ Cardinality({ y \in E : ListedBefore(y, x) }) = i - 1

\* C19 witness: a reload to the single path a/b/c/f.g has given the
\* directory node "a/b/c/" at depth 0 and the file node "f.g" at depth 1.
C19_Witness ==
    /\ ev.kind = "reload"
    /\ Len(s.TreeFiles) = 1
    /\ s.TreeFiles[1].Path = <<"a", "/", "b", "/", "c", "/", "f", ".", "g">>
    /\ Len(s.TreeNodes) = 2
    /\ s.TreeNodes[1].IsDir /\ s.TreeNodes[1].Depth = 0
    /\ s.TreeNodes[1].Display = <<"a", "/", "b", "/", "c", "/">>
    /\ ~s.TreeNodes[2].IsDir /\ s.TreeNodes[2].Depth = 1
    /\ s.TreeNodes[2].Display = <<"f", ".", "g">>

-----------------------------------------------------------------------------
(* The help overlay: src/unnamed/part_004 (HandleKey) *)

\* The keys pressed with and without the overlay: the one that shows it,
\* two that quit, one that runs the editor, and some that change the view.
HelpKeys ==
    { Rune(r) : r \in {"?", "q", "j", "s", "o", "F"} }
    \cup { KeyEv("Escape", ""), KeyEv("Tab", "") }

InitHelp ==
    /\ s = Started({}, 80, 6, FALSE, Env(Diff(SearchFrags), Nil, Nil, TRUE))
    /\ quit = FALSE
    /\ timeouts = 0
    /\ ev = LoopEv("start", 0, 0)
    /\ parsed = <<>>
    /\ watch = IdleWatch
    /\ recon = NoFiles

NextHelp == KeyEvent(HelpKeys, QuietEnvs)

SpecHelp == InitHelp /\ [][NextHelp]_vars

-----------------------------------------------------------------------------
(* Failed clipboard writes: src/unnamed/part_004 (handleYankHunk,             *)
(* copyClickedChunk), src/clipboard.go                                       *)

\* The yank commands, the labels of the first two hunks, and two keys that
\* change the rows under the mouse.
CopyKeys == { Rune(r) : r \in {"y", "Y", "p", "c", "i", "l", "s", "j"} }

\* Right clicks and second clicks on the left and on the right of rows 0
\* and 3, and a first click.
CopyClicks ==
    { MouseEv(b.button, x, y, b.fast) :
        b \in { [button |-> "Button3", fast |-> FALSE],
                [button |-> "Button1", fast |-> FALSE],
                [button |-> "Button1", fast |-> TRUE] },
        x \in {0, 60}, y \in {0, 3} }

InitCopy ==
    /\ s = Started({}, 80, 6, FALSE, Env(Diff(SearchFrags), Nil, Nil, TRUE))
    /\ quit = FALSE
    /\ timeouts = 0
    /\ ev = LoopEv("start", 0, 0)
    /\ parsed = <<>>
    /\ watch = IdleWatch
    /\ recon = NoFiles

NextCopy ==
    \/ KeyEvent(CopyKeys, QuietEnvs)
    \/ MouseEvent(CopyClicks, QuietEnvs)

SpecCopy == InitCopy /\ [][NextCopy]_vars

\* The event that led to state st wrote to the clipboard and the write
\* failed.
WriteFailed(st) ==
    \E k \in DOMAIN st.Out : st.Out[k].op = "clipboard" /\ ~st.Out[k].ok

CopyFailedMsg == "Copy failed: could not write to terminal"

YankFailedFmt == "Yank failed for hunk %s: could not write to terminal"

\* C21 as stated: after a key or a mouse event whose clipboard write failed
\* the flash message is "Copy failed: could not write to terminal", and the
\* program has not quit.
C21_CopyFailedFlash ==
    [][(ev'.kind \in {"key", "mouse"} /\ WriteFailed(s'))
         => /\ s'.FlashMsg = Flash(CopyFailedMsg, <<>>)
            /\ ~quit']_vars

\* C21: after a mouse copy whose clipboard write failed the flash message is
\* "Copy failed: could not write to terminal"; after a keyboard yank whose
\* write failed it is "Yank failed for hunk <label>: could not write to
\* terminal" with the label of the hunk yanked; either way the message
\* lasts 2 seconds and the program has not quit.
C21_WriteFailedFlash ==
    [][/\ (ev'.kind = "mouse" /\ WriteFailed(s'))
            => /\ s'.FlashMsg = Flash(CopyFailedMsg, <<>>)
               /\ s'.FlashExpiry = 2
               /\ ~quit'
       /\ (ev'.kind = "key" /\ WriteFailed(s'))
            => /\ s'.Out[1].op = "handleYankHunk"
               /\ s'.FlashMsg = Flash(YankFailedFmt,
                                      <<s.Hunks[s'.Out[1].hunk + 1].Label>>)
               /\ s'.FlashExpiry = 2
               /\ ~quit']_vars

\* A right click in side-by-side mode whose write fails.
C21_Witness ==
    /\ ev.kind = "mouse" /\ ev.Key = "Button3"
    /\ s.SideBySide
    /\ WriteFailed(s)
    /\ s.FlashMsg = Flash(CopyFailedMsg, <<>>)
    /\ ~quit

-----------------------------------------------------------------------------
(* Label commands with the watcher running: the diff of SpecKeys, and       *)
(* reloads that bring two hunks of another file or no hunk at all.           *)

PendFrags == <<SmallFrag(FileB, 1), SmallFrag(FileB, 5)>>

PendReloads ==
    { Env(Diff(PendFrags), Nil, Nil, TRUE), Env(Diff(<<>>), Nil, Nil, TRUE) }

\* A yank and the staging command, the label of the first hunk, and a key
\* that is no label and quits when it is handled as a command.
PendKeys == { Rune(r) : r \in {"y", "A", "i", "q"} }

InitPend ==
    /\ s = Started({}, 80, 24, FALSE, Env(Diff(KeyFrags), Nil, Nil, TRUE))
    /\ quit = FALSE
    /\ timeouts = 0
    /\ ev = LoopEv("start", 0, 0)
    /\ parsed = <<>>
    /\ watch = IdleWatch
    /\ recon = NoFiles

NextPend ==
    \/ KeyEvent(PendKeys, QuietEnvs)
    \/ TimerFire(MaxTimeouts)
    \/ TimeoutEvent(QuietEnvs)
    \/ ReloadEvent(PendReloads)

SpecPend == InitPend /\ [][NextPend]_vars

\* The keys that take a hunk label.
LabelKeys == LabelCmds \cup {"A"}

\* The event that led to state after ran the pending command of st on the
\* hunk at position h, and nothing else.
RanPending(st, h, after) ==
    IF st.PendingKey = "A" THEN \E ok \in BOOLEAN : StagedOutcome(st, h, ok, after)
    ELSE Executed(st, st.PendingKey, h, after)

\* C22: with a label command pending and a label L typed, a key r for which
\* L followed by r is neither a label nor the start of a longer label ends
\* the sequence: nothing is pending afterwards and r is not handled as a
\* command (the program does not quit on q, y does not start a new
\* sequence). If L is the label of a hunk, the pending command has run on
\* that hunk and nothing else has run; if L is the label of no hunk,
\* nothing has run and nothing else has changed.
C22_LabelFallback ==
    [][(/\ ev'.kind = "key" /\ ev'.Key = "Rune"
        /\ s.PendingKey \in LabelKeys /\ s.PendingLabel # EmptyText
        /\ ~HasLabel(s, Append(s.PendingLabel, ev'.Rune))
        /\ ~HasLongerLabel(s, Append(s.PendingLabel, ev'.Rune)))
         => /\ NothingPending(s')
            /\ ~s'.LabelTimer
            /\ ~quit'
            /\ HasLabel(s, s.PendingLabel)
                 => \E h \in DOMAIN s.Hunks :
                       /\ s.Hunks[h].Label = s.PendingLabel
                       /\ RanPending(s, h, s')
            /\ ~HasLabel(s, s.PendingLabel)
                 => /\ s'.Out = <<>>
                    /\ Viewer(s') = [Viewer(s) EXCEPT !.PendingKey = "",
                                                      !.PendingLabel = EmptyText,
                                                      !.LabelTimer = FALSE]]_vars

\* C22 witness: y, i, q has copied the added line of the first hunk, and
\* the program runs on with nothing pending.
C22_Witness ==
    /\ ev = Rune("q")
    /\ ~quit
    /\ Len(s.Out) = 2
    /\ s.Out[1] = [op |-> "handleYankHunk", cmd |-> "y", hunk |-> 0]
    /\ s.Hunks[1].Label = <<"i">>
    /\ NothingPending(s)

-----------------------------------------------------------------------------
(* Escape in a pending sequence: the diff of SpecKeys; once the timer of a   *)
(* label has fired, the only key handled before its EventLabelTimeout is     *)
(* Escape, so that a timeout event which finds nothing pending, or finds the *)
(* timer of a later label armed, was posted for a cancelled sequence.        *)

CancelKeys == { Rune(r) : r \in {"y", "A", "i", "]"} } \cup { KeyEv("Escape", "") }

\* The timer of the pending label has fired and its event is not handled yet.
TimeoutPosted(st) == st.PendingLabel # EmptyText /\ ~st.LabelTimer

InitCancel ==
    /\ s = Started({}, 80, 24, FALSE, Env(Diff(KeyFrags), Nil, Nil, TRUE))
    /\ quit = FALSE
    /\ timeouts = 0
    /\ ev = LoopEv("start", 0, 0)
    /\ parsed = <<>>
    /\ watch = IdleWatch
    /\ recon = NoFiles

NextCancel ==
    \/ /\ KeyEvent(CancelKeys, QuietEnvs)
       /\ TimeoutPosted(s) => ev'.Key = "Escape"
    \/ TimerFire(MaxTimeouts)
    \/ TimeoutEvent(QuietEnvs)

SpecCancel == InitCancel /\ [][NextCancel]_vars

\* C23, the key: Escape with ] or a label command pending leaves nothing
\* pending, runs no command and does not quit.
EscapeCancels ==
    (ev' = KeyEv("Escape", "") /\ s.PendingKey # "")
        => /\ NothingPending(s')
           /\ s'.Out = <<>>
           /\ ~quit'

\* C23: Escape with ] or a label command pending leaves nothing pending,
\* runs no command and does not quit, and the EventLabelTimeout posted for
\* the cancelled sequence runs no command when it is handled.
C23_EscapeCancels ==
    [][/\ EscapeCancels
       /\ (ev'.kind = "timeout" /\ (s.PendingKey = "" \/ s.LabelTimer))
            => s'.Out = <<>>]_vars

\* C24: an EventLabelTimeout handled while the timer of the pending label is
\* still armed (fewer than 500 ms after the label's last character; the
\* event was posted for an earlier sequence) resolves nothing: the pending
\* key and label stay and no command runs.
C24_TimeoutNotEarly ==
    [][(/\ ev'.kind = "timeout"
        /\ s.PendingKey # "" /\ s.PendingLabel # EmptyText
        /\ s.LabelTimer)
         => /\ s'.PendingKey = s.PendingKey
            /\ s'.PendingLabel = s.PendingLabel
            /\ s'.Out = <<>>]_vars

\* The hunk list of the first parse of SpecPend. It is the only list of
\* SpecPend in which a label starts a longer label, so that every pending
\* label of SpecPend was typed while it was the current list.
TypedOnHunks == parseDiff(KeyFrags)

\* C25: when a key or a label timeout that finds a label pending runs a
\* label command, the hunk it acts on is a hunk of the list that was
\* current when the label was typed, under the label it had there.
C25_ActsOnTypedHunk ==
    [][\A k \in DOMAIN s'.Out :
          (/\ ev'.kind \in {"key", "timeout"}
           /\ s.PendingLabel # EmptyText
           /\ s'.Out[k].op \in {"handleYankHunk", "handleStageHunk"})
            => \E h \in DOMAIN TypedOnHunks :
                  /\ hunkFingerprint(TypedOnHunks[h])
                       = hunkFingerprint(s.Hunks[s'.Out[k].hunk + 1])
                  /\ TypedOnHunks[h].Label = s.Hunks[s'.Out[k].hunk + 1].Label]_vars

-----------------------------------------------------------------------------
(* The input modes: the diff of SpecKeys, started with or without the tree, *)
(* and the keys that enter and leave help, search, the tree and a pending    *)
(* sequence, with clicks, resizes, reloads and label timeouts in between.    *)

ModeKeys ==
    { Rune(r) : r \in {"?", "/", "e", "y", "i"} }
    \cup { KeyEv(k, "") : k \in {"Tab", "Escape", "Enter"} }

\* A click on the first file of the tree, or on the diff when the tree is
\* closed.
ModeClicks == { MouseEv("Button1", 0, 2, FALSE) }

\* The search queries typed.
ModeQueries == { EmptyText, <<"i">> }

InitModes ==
    /\ \E flags \in { {}, {"-e"} } :
          s = Started(flags, 80, 200, FALSE, Env(Diff(KeyFrags), Nil, Nil, TRUE))
    /\ quit = FALSE
    /\ timeouts = 0
    /\ ev = LoopEv("start", 0, 0)
    /\ parsed = <<>>
    /\ watch = IdleWatch
    /\ recon = NoFiles

NextModes ==
    \/ /\ KeyEvent(ModeKeys, {NoEnv})
       /\ s'.SearchQuery \in ModeQueries
    \/ MouseEvent(ModeClicks, {NoEnv})
    \/ TimerFire(MaxTimeouts)
    \/ TimeoutEvent({NoEnv})
    \/ ReloadEvent(PendReloads)

SpecModes == InitModes /\ [][NextModes]_vars

\* The input modes a state is in.
ModesOf(st) ==
    { m \in {"help", "search", "tree", "pending"} :
        \/ m = "help" /\ st.ShowHelp
        \/ m = "search" /\ st.SearchMode
        \/ m = "tree" /\ st.TreeFocused
        \/ m = "pending" /\ st.PendingKey # "" }

\* C26: in every reachable state at most one of help overlay, search mode,
\* tree focus and pending key is on; the tree has the focus only while it is
\* open; and a pending label is non-empty only while the pending key is one
\* of y, Y, p, c, A.
C26_OneMode ==
    /\ Cardinality(ModesOf(s)) <= 1
    /\ s.TreeFocused => s.TreeOpen
    /\ s.PendingLabel # EmptyText => s.PendingKey \in LabelKeys

\* C26 witness: a label is pending in a state that has been through search
\* mode and has the tree open without the focus.
C26_Witness ==
    /\ ModesOf(s) = {"pending"}
    /\ s.PendingLabel = <<"i">>
    /\ s.TreeOpen
    /\ s.SearchQuery # EmptyText

-----------------------------------------------------------------------------
(* The watcher and the debounce loop: src/watch.go, lines 36-50, and        *)
(* watchAndUpdate, src/unnamed/part_005, lines 353-366                      *)

\* The most notifications the watcher library delivers in one run.
MaxNotes == 3

\* case <-w.Event: the watcher goroutine sends on updates without blocking;
\* the token is dropped when the channel (capacity 1) is full.
WatchNotify(maxNotes) ==
    /\ ~quit
    /\ ~s.PipeMode
    /\ watch.notes < maxNotes
    /\ watch' = [watch EXCEPT !.notes = @ + 1,
                              !.updates = 1,
                              !.opened = IF watch.armed THEN @ ELSE @ + 1,
                              !.owed = TRUE]
    /\ UNCHANGED <<s, quit, timeouts, ev, parsed, recon>>

\* for range updates: the debounce loop receives a token.
DebounceTake ==
    /\ ~quit
    /\ watch.updates = 1
    /\ ~watch.taken
    /\ watch' = [watch EXCEPT !.updates = 0, !.taken = TRUE]
    /\ UNCHANGED <<s, quit, timeouts, ev, parsed, recon>>

\* The body of the loop: pending.Stop(), which does nothing to a timer that
\* has fired, then a new timer of 300 ms.
DebounceArm ==
    /\ ~quit
    /\ watch.taken
    /\ watch' = [watch EXCEPT !.taken = FALSE, !.armed = TRUE]
    /\ UNCHANGED <<s, quit, timeouts, ev, parsed, recon>>

\* The timer goes off: its callback posts an EventReload.
DebounceFire ==
    /\ ~quit
    /\ watch.armed
    /\ watch' = [watch EXCEPT !.armed = FALSE,
                              !.reloads = @ + 1,
                              !.posts = @ + 1,
                              !.owed = FALSE]
    /\ UNCHANGED <<s, quit, timeouts, ev, parsed, recon>>

\* case *EventReload without the test of WatchEnabled.
eventReloadAlways(st, env) == reloadDiff(st, env)

\* case *EventReload
eventReload(st, env) ==
    IF st.WatchEnabled THEN reloadDiff(st, env) ELSE st

\* case *EventReload, for an event that the debounce timer has posted.
ReloadPosted(envs) ==
    /\ ~quit
    /\ watch.reloads > 0
    /\ \E env \in envs : s' = eventReload(Fresh(s), env)
    /\ watch' = [watch EXCEPT !.reloads = @ - 1]
    /\ ev' = LoopEv("reload", 0, 0)
    /\ UNCHANGED <<quit, timeouts, parsed, recon>>

\* The watch toggle and a scroll key.
WatchKeys == { Rune(r) : r \in {"W", "j"} }

InitWatch ==
    /\ s = Started({}, 40, 8, FALSE, Env(Diff(ReloadBase), Nil, Nil, TRUE))
    /\ quit = FALSE
    /\ timeouts = 0
    /\ ev = LoopEv("start", 0, 0)
    /\ parsed = <<>>
    /\ watch = IdleWatch
    /\ recon = NoFiles

NextWatch ==
    \/ WatchNotify(MaxNotes)
    \/ DebounceTake
    \/ DebounceArm
    \/ DebounceFire
    \/ ReloadPosted(ReloadEnvs)
    \/ KeyEvent(WatchKeys, ReloadEnvs)

SpecWatch == InitWatch /\ [][NextWatch]_vars

\* The debounce goroutine is scheduled whenever it can run, and an armed
\* timer goes off after its 300 ms.
SpecWatchFair ==
    /\ SpecWatch
    /\ WF_vars(DebounceTake)
    /\ WF_vars(DebounceArm)
    /\ WF_vars(DebounceFire)

\* Once a notification has arrived, an EventReload is posted after it.
NoteLeadsToReload == watch.owed ~> ~watch.owed

\* C27: no notification is lost: after every notification an EventReload
\* is eventually posted, and the notifications that arrive while a debounce
\* timer is armed add no EventReload of their own, so that no more events
\* are posted than notifications found no timer armed.
C27_NoNoteLost ==
    /\ NoteLeadsToReload
    /\ [](watch.posts <= watch.opened)

\* The viewer state with the watch flag and the flash message of another.
WithWatchOf(st, other) ==
    [st EXCEPT !.WatchEnabled = other.WatchEnabled,
               !.FlashMsg = other.FlashMsg,
               !.FlashExpiry = other.FlashExpiry]

\* C28: while watch is disabled, handling an EventReload posted by the
\* watcher leaves every field of the viewer state as it was and runs no
\* command; the key W, outside pipe mode, flips the watch flag, sets the
\* flash message that names the new setting, runs no command and leaves
\* every other field as it was.
C28_WatchOffQuiet ==
    [][/\ (ev'.kind = "reload" /\ watch'.reloads < watch.reloads /\ ~s.WatchEnabled)
            => s' = Fresh(s)
       /\ (ev' = Rune("W") /\ watch' = watch /\ NormalMode(s) /\ ~s.PipeMode)
            => /\ s'.WatchEnabled = ~s.WatchEnabled
               /\ s'.FlashMsg = Flash(IF s'.WatchEnabled THEN "Watch mode enabled"
                                      ELSE "Watch mode disabled", <<>>)
               /\ s'.Out = <<>>
               /\ WithWatchOf(s', s) = Fresh(s)]_vars

\* An EventReload of the debounce timer has been handled with watch
\* disabled: the message of the toggle is still there.
C28_Witness ==
    /\ ev.kind = "reload"
    /\ ~s.WatchEnabled
    /\ s.FlashMsg = Flash("Watch mode disabled", <<>>)
    /\ watch.posts > watch.reloads

-----------------------------------------------------------------------------
(* Search matches across rebuilds of the display lines *)

\* The search prompt and what is typed in it, the key that walks the
\* matches, the toggles of the side-by-side view and the full-file view,
\* and the file tree (Enter in it sets the file filter).
MatchKeys ==
    { Rune(r) : r \in {"/", "N", "x", "s", "f", "e"} }
        \cup { KeyEv("Enter", ""), KeyEv("Escape", ""), KeyEv("Backspace", "") }

\* The queries typed: a capital that matches the lines with n, and x.
MatchQueries == { EmptyText, <<"N">>, <<"x">> }

MatchSizes == { <<80, 6>>, <<20, 8>> }

MatchReloads ==
    { Env(Diff(SearchFrags), Nil, Nil, TRUE), Env(Diff(PendFrags), Nil, Nil, TRUE) }

InitMatch ==
    /\ s = Started({}, 80, 6, FALSE, Env(Diff(SearchFrags), Nil, Nil, TRUE))
    /\ quit = FALSE
    /\ timeouts = 0
    /\ ev = LoopEv("start", 0, 0)
    /\ parsed = <<>>
    /\ watch = IdleWatch
    /\ recon = NoFiles

NextMatch ==
    \/ /\ KeyEvent(MatchKeys, {NoEnv})
       /\ s'.SearchQuery \in MatchQueries
    \/ ResizeEvent(MatchSizes, {NoEnv})
    \/ ReloadEvent(MatchReloads)

SpecMatch == InitMatch /\ [][NextMatch]_vars

\* C29: after every event the search matches are the rows of the current
\* display lines that hold the current query in their text or in one of
\* their halves, whatever the case of the letters, in ascending order and
\* each once (none when the query is empty), and the index of the current
\* match is -1 or an index into the matches.
C29_MatchesCurrent ==
    ev.kind # "start" =>
        /\ \A i \in 1..(Len(s.SearchMatches) - 1) :
              s.SearchMatches[i] < s.SearchMatches[i + 1]
        /\ { s.SearchMatches[i] : i \in DOMAIN s.SearchMatches }
             = IF s.SearchQuery = EmptyText THEN {} ELSE MatchingRows(s, s.SearchQuery)
        /\ s.SearchIdx = -1 \/ s.SearchIdx \in 0..(Len(s.SearchMatches) - 1)

-----------------------------------------------------------------------------
(* Hunk navigation: four hunks in two files, fourteen rows in a terminal of *)
(* eight                                                                    *)

\* The two keys of the jump to the next hunk, the first key of the jump
\* back, a scroll key, and the file tree (Enter in it sets the file filter,
\* Tab leaves it).
JumpKeys ==
    { Rune(r) : r \in {"]", "c", "[", "j", "e"} }
        \cup { KeyEv("Enter", ""), KeyEv("Tab", "") }

InitJump ==
    /\ s = Started({}, 40, 8, FALSE, Env(Diff(ReloadBase), Nil, Nil, TRUE))
    /\ quit = FALSE
    /\ timeouts = 0
    /\ ev = LoopEv("start", 0, 0)
    /\ parsed = <<>>
    /\ watch = IdleWatch
    /\ recon = NoFiles

NextJump == KeyEvent(JumpKeys, {NoEnv})

SpecJump == InitJump /\ [][NextJump]_vars

\* The user presses ] with nothing pending, or c after ].
JumpStep ==
    \/ NormalMode(s) /\ ev' = Rune("]")
    \/ s.PendingKey = "]" /\ ev' = Rune("c")

\* From some point on the user only repeats ] c, and keeps doing so.
SpecJumpFair ==
    /\ SpecJump
    /\ <>[][JumpStep]_vars
    /\ WF_vars(NextJump)

\* The visible hunks after the current one, by Go index.
LaterVisible(st) ==
    { i \in 0..(Len(st.Hunks) - 1) :
        i > CurrentHunkIndex(st) /\ st.Hunks[i + 1].StartLine >= 0 }

\* The last visible hunk is the current one.
LastVisibleCurrent(st) == LaterVisible(st) = {}

\* C30 (as claimed): c after ] makes the next visible hunk the current one
\* when there is one and leaves the scroll position as it was otherwise,
\* and while ] c is repeated the last visible hunk becomes the current one.
C30_NextHunkCurrent ==
    /\ [][(s.PendingKey = "]" /\ ev' = Rune("c"))
            => IF LaterVisible(s) # {}
               THEN CurrentHunkIndex(s') = SetMin(LaterVisible(s))
               ELSE s'.Scroll = s.Scroll]_vars
    /\ <>[]LastVisibleCurrent(s)

\* c after ] has gone to the next visible hunk, as far as the scroll
\* position can go.
JumpedToNext(st, after) ==
    LET next == SetMin(LaterVisible(st))
        start == st.Hunks[next + 1].StartLine
    IN  /\ after.Scroll = Min2(start, MaxScroll(st))
        /\ start <= MaxScroll(st) => CurrentHunkIndex(after) = next

\* C30: c after ] scrolls to the first row of the next visible hunk, or to
\* the greatest scroll position if that is smaller, and that hunk becomes
\* the current one when its first row is not beyond the greatest scroll
\* position; with no later visible hunk the scroll position stays as it
\* was; and while ] c is repeated the view comes to rest with the last
\* visible hunk current or at the greatest scroll position.
C30_NextHunkClamped ==
    /\ [][(s.PendingKey = "]" /\ ev' = Rune("c"))
            => IF LaterVisible(s) # {}
               THEN JumpedToNext(s, s')
               ELSE s'.Scroll = s.Scroll]_vars
    /\ <>[](LastVisibleCurrent(s) \/ s.Scroll = MaxScroll(s))

\* c has been handled with the view on the second file alone, chosen in
\* the tree: the view is at the greatest scroll position, and hunks whose
\* first row lies beyond it come after the current one.
C30_Witness ==
    /\ ev = Rune("c")
    /\ s.PendingKey = ""
    /\ s.FilterFile = FileB
    /\ s.Scroll > 0
    /\ s.Scroll = MaxScroll(s)
    /\ LaterVisible(s) # {}

-----------------------------------------------------------------------------
(* Escape in every mode *)

\* Escape, the keys that enter a mode (?, /, e, y), a query character that
\* some row holds, a scroll key, Enter, and Tab, which gives the open tree
\* the focus.
EscapeKeys ==
    { Rune(r) : r \in {"?", "/", "e", "y", "x", "j"} }
        \cup { KeyEv("Escape", ""), KeyEv("Enter", ""), KeyEv("Tab", "") }

EscapeQueries == { EmptyText, <<"x">> }

InitEscape ==
    /\ s = Started({}, 80, 6, FALSE, Env(Diff(SearchFrags), Nil, Nil, TRUE))
    /\ quit = FALSE
    /\ timeouts = 0
    /\ ev = LoopEv("start", 0, 0)
    /\ parsed = <<>>
    /\ watch = IdleWatch
    /\ recon = NoFiles

NextEscape ==
    /\ KeyEvent(EscapeKeys, {NoEnv})
    /\ s'.SearchQuery \in EscapeQueries

SpecEscape == InitEscape /\ [][NextEscape]_vars

\* Nothing is left of the search.
SearchCleared(st) ==
    /\ st.SearchQuery = EmptyText
    /\ st.SearchMatches = <<>>
    /\ st.SearchIdx = -1
    /\ ~st.SearchMode

\* C31: Escape in normal mode quits when there are no search matches; with
\* matches it clears the query, the matches, the index and the search mode
\* and does not quit; with the help overlay shown, in search mode, with the
\* tree focused or with a key pending, Escape does not quit.
C31_EscapeQuits ==
    [][ev'.Key = "Escape"
         => /\ ModesOf(s) # {} => ~quit'
            /\ (ModesOf(s) = {} /\ Len(s.SearchMatches) > 0)
                 => ~quit' /\ SearchCleared(s')
            /\ (ModesOf(s) = {} /\ Len(s.SearchMatches) = 0) => quit']_vars

\* Escape has cleared a search whose first match the view had gone to.
C31_Witness ==
    /\ ev.Key = "Escape"
    /\ ~quit
    /\ ModesOf(s) = {}
    /\ SearchCleared(s)
    /\ s.Scroll > 0

-----------------------------------------------------------------------------
(* Tab and Shift-Tab, with the file tree and in the full-file view *)

\* The new version of a file of ReloadBase: nine lines, with the added
\* lines of the hunks at lines 1, 5 and 9.
DiskText == [i \in 1..9 |-> IF i \in {1, 5, 9} THEN <<"n">> ELSE <<"c">>]

\* The working tree holds the file and git answers with the diff.
DiskEnvs == { Env(Diff(ReloadBase), Read(DiskText), Nil, TRUE) }

\* Tab and Shift-Tab, the tree, the full-file view and a scroll key.
TabKeys ==
    { Rune(r) : r \in {"e", "f", "j"} } \cup { KeyEv("Tab", ""), KeyEv("Backtab", "") }

InitTab ==
    /\ \E env \in DiskEnvs : s = Started({}, 40, 8, FALSE, env)
    /\ quit = FALSE
    /\ timeouts = 0
    /\ ev = LoopEv("start", 0, 0)
    /\ parsed = <<>>
    /\ watch = IdleWatch
    /\ recon = NoFiles

NextTab == KeyEvent(TabKeys, DiskEnvs)

SpecTab == InitTab /\ [][NextTab]_vars

\* What Tab and Shift-Tab do to the state when they move between files.
FileStep(st, key, env) ==
    IF key = "Tab"
    THEN IF st.FullFile THEN NextFullFile(st, env) ELSE JumpToNextFile(st)
    ELSE IF st.FullFile THEN PrevFullFile(st, env) ELSE JumpToPrevFile(st)

\* C32: with the tree open, Tab and Shift-Tab move the focus between the
\* tree and the diff and leave the view on the file it was on, with the
\* display lines as they were; with the tree closed they
\* go to the next and the previous file, which in the full-file view is the
\* next and the previous file shown.
C32_TabFocus ==
    [][(ev'.Key \in {"Tab", "Backtab"} /\ ~s.ShowHelp /\ ~s.SearchMode /\ s.PendingKey = "")
         => IF s.TreeOpen
            THEN /\ s'.TreeFocused = ~s.TreeFocused
                 /\ CurrentFile(s') = CurrentFile(s)
                 /\ s'.Lines = s.Lines
            ELSE \E env \in DiskEnvs : s' = FileStep(Fresh(s), ev'.Key, env)]_vars

\* The rows of a side-by-side display built from a group of removed and
\* added lines, continuations of wrapped rows left out.
GroupRows(st) ==
    { i \in DOMAIN st.Lines :
        /\ ~st.Lines[i].Continuation
        /\ \/ st.Lines[i].Left.Style = StyleRemoved
           \/ st.Lines[i].Right.Style = StyleAdded }

\* C33: in side-by-side mode the style of a row built from a group of
\* removed and added lines is removed when only its left half exists, added
\* when only its right half exists, and context when both exist.
C33_GroupRowStyle ==
    s.SideBySide
      => \A i \in GroupRows(s) :
            s.Lines[i].Style =
                IF s.Lines[i].Right = EmptyHalf THEN StyleRemoved
                ELSE IF s.Lines[i].Left = EmptyHalf THEN StyleAdded
                ELSE StyleContext

-----------------------------------------------------------------------------
(* The full-file view of unstaged changes, of staged changes and of a       *)
(* comparison of two refs                                                   *)

\* The command lines: no option, --staged, and two refs.
FullOpts ==
    { parseArgs({}), parseArgs({"--staged"}),
      [parseArgs({}) EXCEPT !.refs = <<"main", "dev">>] }

\* The working tree and git show both have the file.
FullEnvs == { Env(Diff(ReloadBase), Read(DiskText), Read(DiskText), TRUE) }

\* The full-file view, the side-by-side view, the next file and a scroll
\* key.
FullKeys == { Rune(r) : r \in {"f", "s", "j"} } \cup { KeyEv("Tab", "") }

InitFull ==
    /\ \E opts \in FullOpts, env \in FullEnvs :
          s = [loadDiff(NewState(opts, 40, 8, FALSE), env).st EXCEPT !.Out = <<>>]
    /\ quit = FALSE
    /\ timeouts = 0
    /\ ev = LoopEv("start", 0, 0)
    /\ parsed = <<>>
    /\ watch = IdleWatch
    /\ recon = NoFiles

NextFull == KeyEvent(FullKeys, FullEnvs)

SpecFull == InitFull /\ [][NextFull]_vars

\* The reads of file contents made while the event was handled: files read
\* from the working tree and git show commands.
ContentReads(st) ==
    { i \in DOMAIN st.Out :
        \/ st.Out[i].op = "readfile"
        \/ st.Out[i].op = "git" /\ st.Out[i].args[1] = "show" }

\* The one read that gives the new version of the file of the full-file
\* view in this session.
NewFileRead(st) ==
    IF st.Staged THEN GitCall(<<"show", ":", st.FullFileName>>)
    ELSE IF Len(st.Refs) >= 2 THEN GitCall(<<"show", st.Refs[2], ":", st.FullFileName>>)
    ELSE [op |-> "readfile", file |-> st.FullFileName]

\* C34: whenever the full-file view is built, inline or side by side, the
\* new file is read from the index (show :path) in a session on staged
\* changes, from show <ref>:path in a comparison of refs, and from the
\* working tree otherwise, and from nowhere else.
C34_NewFileSource ==
    [][(s'.FullFile /\ ContentReads(s') # {})
         => \A i \in ContentReads(s') : s'.Out[i] = NewFileRead(s')]_vars

-----------------------------------------------------------------------------
(* reconstructOldFile on the hunks of a unified diff: src/search.go, lines  *)
(* 681-724                                                                  *)

\* The most lines of the two files taken together.
MaxScript == 4

\* An edit script takes the old file to the new one line by line: "-" is a
\* line of the old file only, "+" a line of the new file only, " " a line
\* of both that the diff shows as context, "." a line of both that no hunk
\* shows.  The line at position i of the script is the i-th letter.
ScriptOps == {"-", "+", " ", "."}

ScriptLine(i) == <<Lower[i]>>

\* The positions i..j of the script hold lines of one hunk.
OneRun(sc, i, j) == \A k \in i..j : sc[k] # "."

\* Every context line shown belongs to a hunk with a change, as in the
\* output of diff.
WellFormed(sc) ==
    \A i \in DOMAIN sc :
        sc[i] = " " => \E j \in DOMAIN sc :
                          /\ sc[j] \in {"-", "+"}
                          /\ OneRun(sc, Min2(i, j), Max2(i, j))

Scripts ==
    { sc \in UNION { [1..n -> ScriptOps] : n \in 0..MaxScript } : WellFormed(sc) }

\* The lines of the script that are in the old file, and in the new one.
OldOf(sc) ==
    [k \in 1..Cardinality({ i \in DOMAIN sc : sc[i] # "+" }) |->
        ScriptLine(CHOOSE i \in DOMAIN sc :
                      /\ sc[i] # "+"
                      /\ Cardinality({ j \in 1..i : sc[j] # "+" }) = k)]

NewOf(sc) ==
    [k \in 1..Cardinality({ i \in DOMAIN sc : sc[i] # "-" }) |->
        ScriptLine(CHOOSE i \in DOMAIN sc :
                      /\ sc[i] # "-"
                      /\ Cardinality({ j \in 1..i : sc[j] # "-" }) = k)]

\* The hunk of the positions i..j of the script, with the ranges of the
\* unified format: a range starts at its first line, and an empty range is
\* given the number of the line before it.
ScriptFrag(sc, i, j) ==
    LET oldBefore == Cardinality({ k \in 1..(i - 1) : sc[k] # "+" })
        newBefore == Cardinality({ k \in 1..(i - 1) : sc[k] # "-" })
        oldLen == Cardinality({ k \in i..j : sc[k] # "+" })
        newLen == Cardinality({ k \in i..j : sc[k] # "-" })
    IN  Frag(FileA, EmptyText,
             IF oldLen = 0 THEN oldBefore ELSE oldBefore + 1,
             IF newLen = 0 THEN newBefore ELSE newBefore + 1,
             [k \in 1..(j - i + 1) |-> Line(sc[i + k - 1], ScriptLine(i + k - 1))])

\* The hunks of the script, in order, one for each run of lines shown.
ScriptFrags(sc) ==
    LET starts == SelectSeq([i \in 1..Len(sc) |-> i],
                            LAMBDA i : sc[i] # "." /\ (i = 1 \/ sc[i - 1] = "."))
    IN  [k \in DOMAIN starts |->
            ScriptFrag(sc, starts[k],
                       SetMax({ j \in starts[k]..Len(sc) : OneRun(sc, starts[k], j) }))]

\* The viewer on the diff of a script, followed by a hunk of another file,
\* with the new file in the working tree.
InitRecon ==
    /\ \E sc \in Scripts :
          /\ s = Started({}, 80, 24, FALSE,
                         Env(Diff(ScriptFrags(sc) \o <<SmallFrag(FileB, 1)>>),
                             Read(NewOf(sc)), Nil, TRUE))
          /\ recon = [old |-> OldOf(sc), new |-> NewOf(sc), rebuilt |-> <<>>,
                      done |-> FALSE]
    /\ quit = FALSE
    /\ timeouts = 0
    /\ ev = LoopEv("start", 0, 0)
    /\ parsed = <<>>
    /\ watch = IdleWatch

\* The call of reconstructOldFile in buildFullFileSideBySideLines.
Reconstruct ==
    /\ ~recon.done
    /\ recon' = [recon EXCEPT !.rebuilt = reconstructOldFile(s, FileA, recon.new),
                              !.done = TRUE]
    /\ UNCHANGED <<s, quit, timeouts, ev, parsed, watch>>

NextRecon == Reconstruct

SpecRecon == InitRecon /\ [][NextRecon]_vars

\* C35: the old file rebuilt from the new file and the hunks of a
\* well-formed unified diff is the old file, and it is the new file when
\* no hunk belongs to the file.
C35_ReconstructLossless ==
    recon.done
      => /\ recon.rebuilt = recon.old
         /\ Len(fileHunkIdxs(s, FileA)) = 0 => recon.rebuilt = recon.new

\* ---------------------------------------------------------------------
\* The file filter of the tree.

\* What git answers to a reload: the two files, or only the first one.
FilterEnvs ==
    { Env(Diff(ReloadBase), Read(DiskText), Nil, TRUE),
      Env(Diff(<<SmallFrag(FileA, 1)>>), Read(DiskText), Nil, TRUE) }

\* The tree, its cursor and its selection, the two layouts, the full-file
\* view and wrapping.
FilterKeys ==
    { Rune(r) : r \in {"e", "j", "a", "s", "f", "w"} }
        \cup { KeyEv("Tab", ""), KeyEv("Enter", "") }

InitFilter ==
    /\ \E env \in DiskEnvs : s = Started({}, 40, 8, FALSE, env)
    /\ quit = FALSE
    /\ timeouts = 0
    /\ ev = LoopEv("start", 0, 0)
    /\ parsed = <<>>
    /\ watch = IdleWatch
    /\ recon = NoFiles

NextFilter ==
    \/ KeyEvent(FilterKeys, DiskEnvs)
    \/ ReloadEvent(FilterEnvs)

SpecFilter == InitFilter /\ [][NextFilter]_vars

\* A filter file is set and the view is not the full-file view.
FilterActive(st) == st.FilterFile # EmptyText /\ ~st.FullFile

\* The hunk a display row names, as an index of st.Hunks, or 0.
RowHunk(st, i) ==
    IF st.Lines[i].HunkIdx >= 0 /\ st.Lines[i].HunkIdx < Len(st.Hunks)
    THEN st.Lines[i].HunkIdx + 1 ELSE 0

\* The rows a hunk contributes: its header and its content.
HunkRows(st, h) ==
    { i \in DOMAIN st.Lines :
        /\ st.Lines[i].HunkIdx = h - 1
        /\ st.Lines[i].Style \in {StyleHunkHeader, StyleAdded, StyleRemoved, StyleContext} }

\* The state shows one file only, in the way the claim says.
OneFileShown(st) ==
    /\ \A h \in DOMAIN st.Hunks :
          IF st.Hunks[h].File = st.FilterFile
          THEN st.Hunks[h].StartLine >= 0
          ELSE st.Hunks[h].StartLine = -1 /\ HunkRows(st, h) = {}
    /\ \A i \in DOMAIN st.Lines :
          st.Lines[i].HunkIdx >= 0 =>
              /\ RowHunk(st, i) # 0
              /\ st.Hunks[RowHunk(st, i)].File = st.FilterFile

\* Enter in the focused tree with the cursor on the file that is the filter.
SelectsFilterAgain ==
    /\ ev'.kind = "key" /\ ev'.Key = "Enter"
    /\ s.TreeOpen /\ s.TreeFocused
    /\ ~s.ShowHelp /\ ~s.SearchMode /\ s.PendingKey = ""
    /\ s.FilterFile # EmptyText
    /\ TreeCursorPath(s) = s.FilterFile

\* C36: while a filter file is set outside the full-file view, every hunk
\* of another file has StartLine -1 and no row, every hunk of the filter
\* file has a StartLine of 0 or more, and every row whose HunkIdx is 0 or
\* more names a hunk of the filter file; and Enter in the tree on the file
\* that is the filter clears the filter and shows the hunks of all files.
C36_FilterShowsOneFile ==
    /\ [](FilterActive(s) => OneFileShown(s))
    /\ [][SelectsFilterAgain =>
            /\ s'.FilterFile = EmptyText
            /\ ~s'.FullFile => \A h \in DOMAIN s'.Hunks : s'.Hunks[h].StartLine >= 0]_vars

\* C37: after a reload that leaves hunks, the view has rows, also when the
\* filter file or the file of the full-file view is not in the new diff.
C37_ReloadLeavesRows ==
    (ev.kind = "reload" /\ Len(s.Hunks) > 0) => Len(s.Lines) > 0

\* ---------------------------------------------------------------------
\* Staging and reloading.

\* What git answers to a reload: the same hunks, or those of the second file.
StageReloads ==
    { Env(Diff(ReloadBase), Nil, Nil, TRUE),
      Env(Diff(<<SmallFrag(FileB, 1), SmallFrag(FileB, 5)>>), Nil, Nil, TRUE) }

\* A, the labels of the first two hunks, a scroll key and Escape.
StageKeys == { Rune(r) : r \in {"A", "i", "l", "j"} } \cup { KeyEv("Escape", "") }

InitStage ==
    /\ s = Started({}, 40, 8, FALSE, Env(Diff(ReloadBase), Nil, Nil, TRUE))
    /\ quit = FALSE
    /\ timeouts = 0
    /\ ev = LoopEv("start", 0, 0)
    /\ parsed = <<>>
    /\ watch = IdleWatch
    /\ recon = NoFiles

NextStage ==
    \/ KeyEvent(StageKeys, QuietEnvs)
    \/ ReloadEvent(StageReloads)

SpecStage == InitStage /\ [][NextStage]_vars

\* The hunks of st that are the hunk h: same file, old start and new start.
SameHunks(st, h) ==
    { g \in DOMAIN st.Hunks : hunkFingerprint(st.Hunks[g]) = hunkFingerprint(h) }

\* C38: a hunk that is staged is still staged after a reload whose diff has
\* the same hunk (file, old start, new start), so that A on it unstages.
C38_StagedAcrossReload ==
    [][ev'.kind = "reload" =>
          \A h \in DOMAIN s.Hunks :
              s.Hunks[h].Staged =>
                  \A g \in SameHunks(s', s.Hunks[h]) : s'.Hunks[g].Staged]_vars

\* ---------------------------------------------------------------------
\* Horizontal scrolling: src/unnamed/part_002 (render.go), drawInlineLine
\* and drawSideBySideLine.

\* The runes of text from position n (0-based) on: string(runes[n:]), and
\* the empty text when n is not less than the length.
runesFrom(text, n) ==
    IF n < Len(text) THEN SubSeq(text, n + 1, Len(text)) ELSE EmptyText

\* A plausible slip in drawInlineLine: the horizontal scroll is applied
\* with wrapping on as well.
drawInlineLineWrapped(st, line) ==
    IF st.ScrollX > 0 /\ line.Style # StyleHunkHeader
    THEN runesFrom(line.Text, st.ScrollX)
    ELSE line.Text

\* drawInlineLine: the text that is drawn of a hunk-header or content row.
drawInlineLine(st, line) ==
    IF ~st.Wrap /\ st.ScrollX > 0 /\ line.Style # StyleHunkHeader
    THEN runesFrom(line.Text, st.ScrollX)
    ELSE line.Text

\* drawSideBySideLine: the two texts that are drawn of a content row.
drawSideBySideLine(st, line) ==
    IF st.ScrollX > 0
    THEN [left  |-> runesFrom(line.Left.Text, st.ScrollX),
          right |-> runesFrom(line.Right.Text, st.ScrollX)]
    ELSE [left |-> line.Left.Text, right |-> line.Right.Text]

\* The most the view is scrolled to the right.
MaxScrollX == 8

\* A hunk with a line of six characters and one with short lines.
ScrollFrags ==
    << Frag(FileA, EmptyText, 1, 1,
            <<Line("-", <<"o", "l", "d", "e", "r", "x">>), Line("+", <<"n">>)>>),
       SmallFrag(FileB, 1) >>

\* With and without -W (wrapping off).
ScrollFlags == { {}, {"-W"} }

\* The arrows, wrapping, the two layouts, line numbers and a scroll key.
ScrollKeys ==
    { Rune(r) : r \in {"w", "s", "n", "j"} } \cup { KeyEv("Left", ""), KeyEv("Right", "") }

InitScroll ==
    /\ \E flags \in ScrollFlags :
          s = Started(flags, 20, 8, FALSE, Env(Diff(ScrollFrags), Nil, Nil, TRUE))
    /\ quit = FALSE
    /\ timeouts = 0
    /\ ev = LoopEv("start", 0, 0)
    /\ parsed = <<>>
    /\ watch = IdleWatch
    /\ recon = NoFiles

NextScroll ==
    /\ KeyEvent(ScrollKeys, {NoEnv})
    /\ s'.ScrollX <= MaxScrollX

SpecScroll == InitScroll /\ [][NextScroll]_vars

\* The content rows of the view: the rows that are neither file header,
\* blank row nor hunk header.
ContentRows(st) ==
    { i \in DOMAIN st.Lines :
        st.Lines[i].Style \notin {StyleFileHeader, StyleNormal, StyleHunkHeader} }

\* Row i is drawn from the first character of its text.
DrawnFromStart(st, i) ==
    IF st.SideBySide
    THEN drawSideBySideLine(st, st.Lines[i])
             = [left |-> st.Lines[i].Left.Text, right |-> st.Lines[i].Right.Text]
    ELSE drawInlineLine(st, st.Lines[i]) = st.Lines[i].Text

\* Row i is drawn from the character at x-scroll on.
DrawnFromScrollX(st, i) ==
    IF st.SideBySide
    THEN drawSideBySideLine(st, st.Lines[i])
             = [left  |-> runesFrom(st.Lines[i].Left.Text, st.ScrollX),
                right |-> runesFrom(st.Lines[i].Right.Text, st.ScrollX)]
    ELSE drawInlineLine(st, st.Lines[i]) = runesFrom(st.Lines[i].Text, st.ScrollX)

\* C39 as stated: with wrapping on every content row is drawn from its
\* first character, in the inline and in the side-by-side layout, whatever
\* x-scroll is; and x-scroll is never negative.
C39_AsStated ==
    /\ s.ScrollX >= 0
    /\ s.Wrap => \A i \in ContentRows(s) : DrawnFromStart(s, i)

\* C39: x-scroll is never negative; in the inline layout with wrapping on
\* every content row is drawn from its first character whatever x-scroll
\* is; in the side-by-side layout, and in the inline layout with wrapping
\* off, every content row is drawn from the character at x-scroll on.
C39_ScrollXApplied ==
    /\ s.ScrollX >= 0
    /\ \A i \in ContentRows(s) :
          IF s.Wrap /\ ~s.SideBySide
          THEN DrawnFromStart(s, i)
          ELSE DrawnFromScrollX(s, i)

\* The inline layout with wrapping on, scrolled to the right, with a row
\* whose text is longer than x-scroll.
C39_Witness ==
    /\ s.Wrap /\ ~s.SideBySide
    /\ s.ScrollX > 0
    /\ \E i \in ContentRows(s) : Len(s.Lines[i].Text) > s.ScrollX

\* ---------------------------------------------------------------------
\* The flash message on the status line: src/unnamed/part_002 (render.go),
\* drawStatusBar, and the loop of main, which draws after an event only.

\* drawStatusBar: a flash message whose expiry lies ahead is drawn; else
\* the message is cleared and the status text is drawn.
drawStatusBar(st) ==
    IF st.FlashMsg # NoFlash /\ st.Now < st.FlashExpiry
    THEN [st EXCEPT !.StatusFlash = st.FlashMsg]
    ELSE [st EXCEPT !.FlashMsg = NoFlash, !.StatusFlash = NoFlash]

\* Render, as far as the flash message goes.
Render(st) == drawStatusBar(st)

\* The latest time of the clock, in seconds.
MaxNow == 4

\* The editor ends with an error.
EditorFails == [Env(Diff(ReloadBase), Nil, Nil, TRUE) EXCEPT !.editor = FALSE]

\* All goes well; the file to edit is not found; the editor fails.
FlashEnvs ==
    { Env(Diff(ReloadBase), Nil, Nil, TRUE),
      Env(Diff(ReloadBase), Nil, Nil, FALSE),
      EditorFails }

\* Keys that set a flash message: W, F, o, and A with a label; the label
\* alone sets none.
FlashKeys == { Rune(r) : r \in {"W", "F", "o", "A", "i"} }

InitFlash ==
    /\ s = Render(Started({}, 40, 8, FALSE, Env(Diff(ReloadBase), Nil, Nil, TRUE)))
    /\ quit = FALSE
    /\ timeouts = 0
    /\ ev = LoopEv("start", 0, 0)
    /\ parsed = <<>>
    /\ watch = IdleWatch
    /\ recon = NoFiles

\* case *tcell.EventKey, with the Render that follows HandleKey.
KeyRender(keys, envs) ==
    /\ ~quit
    /\ \E e \in keys, env \in envs :
          \E r \in {HandleKey(Fresh(s), e, env)} :
              /\ s' = IF r.quit THEN r.st ELSE Render(r.st)
              /\ quit' = r.quit
              /\ ev' = e
    /\ UNCHANGED <<timeouts, parsed, watch, recon>>

\* case *EventReload, with its Render.
ReloadRender(envs) ==
    /\ ~quit
    /\ ~s.PipeMode
    /\ \E env \in envs :
          s' = IF s.WatchEnabled THEN Render(reloadDiff(Fresh(s), env)) ELSE Fresh(s)
    /\ ev' = LoopEv("reload", 0, 0)
    /\ UNCHANGED <<quit, timeouts, parsed, watch, recon>>

\* A second goes by while PollEvent waits: nothing is drawn.
Tick ==
    /\ ~quit
    /\ s.Now < MaxNow
    /\ s' = [s EXCEPT !.Now = @ + 1]
    /\ ev' = LoopEv("tick", 0, 0)
    /\ UNCHANGED <<quit, timeouts, parsed, watch, recon>>

NextFlash ==
    \/ KeyRender(FlashKeys, FlashEnvs)
    \/ ReloadRender(FlashEnvs)
    \/ Tick

SpecFlash == InitFlash /\ [][NextFlash]_vars

\* The seconds a flash message is to be shown.
FlashSeconds(msg) == IF msg.fmt = "Editor error: %v" THEN 3 ELSE 2

\* C40: a flash message is set to expire 2 seconds after it was set, 3 for
\* an editor error, and the status line shows no flash message whose
\* expiry has passed, whether or not an event has arrived since it was set.
C40_FlashExpires ==
    /\ [][(ev'.kind # "tick" /\ s'.FlashMsg # NoFlash /\ s'.FlashExpiry # s.FlashExpiry)
            => s'.FlashExpiry = s'.Now + FlashSeconds(s'.FlashMsg)]_vars
    /\ [](s.StatusFlash # NoFlash => s.Now < s.FlashExpiry)
=============================================================================
